---- MODULE Spec2Model ----
(***************************************************************************)
(* ClervLive delivery core: the tenant-scoped topic registry               *)
(* (TopicManager), per-topic fan-out and catch-up (Topic), the ring of     *)
(* recent messages (RecentMessageCache), the per-client delivery actor     *)
(* with its bounded inbox and drop policy (Subscriber), the subscriber     *)
(* count of the buffer manager and the adaptive throttler.                 *)
(*                                                                         *)
(* Strings (tenant ids, topic names, keys) are sequences of one-character  *)
(* strings, so that the composite key is built by real concatenation.      *)
(* Goroutines are processes with an explicit position; each atomic step    *)
(* of the code (a channel operation, an atomic counter update, a section   *)
(* under a lock) is one step of an action.                                 *)
(***************************************************************************)
EXTENDS Integers, Sequences, FiniteSets, TLC

VARIABLES
    topics,      \* TopicManager.topics: key -> Topic (name, tenantID, subscribers, recentCache, counters)
    subs,        \* the Subscriber objects, by subscriber id
    pubs,        \* the in-flight TopicManager.Publish calls, with their fan-out goroutines
    catchup,     \* the sendRecentMessages goroutine of each subscriber
    bufCount,    \* AddaptiveBufferManager.suncriberCount
    shut,        \* TopicManager.shutDownOnce / shutDownChan, and the number of ShutDown calls
    panicked,    \* the Go runtime panic that ended the process, or "none"
    clock,       \* wall clock in microseconds, as GenerateId formats it
    published,   \* number of messages constructed so far (the request payloads are numbered)
    lastErr,     \* the error returned by the last Subscribe / Unsubscribe call
    hist,        \* history: every message appended to a topic's cache since its last Clear, by key
    lim,         \* the scenario: which inputs the environment draws from
    thr,         \* AdaptiveThrottler fields
    now,         \* time in seconds, for the throttler
    timers,      \* pending StopThrottling timers (their wake-up times)
    callers,     \* in-flight ShouldThrottle calls
    monitor,     \* the monitor loop's UpdateSubscriber call
    buf,         \* AddaptiveBufferManager.maxTotalMemory and bufferSize
    reg          \* TopicManager.mu as a sync.RWMutex, and the calls that lock it step by step

vars == <<topics, subs, pubs, catchup, bufCount, shut, panicked, clock,
          published, lastErr, hist, lim, thr, now, timers, callers, monitor, buf, reg>>

coreVars == <<topics, subs, pubs, catchup, bufCount, shut, panicked, clock,
              published, lastErr, hist>>

\* the throttler, the buffer manager and the registry lock
sideVars == <<thr, now, timers, callers, monitor, buf, reg>>

----------------------------------------------------------------------------
(* Bounds of the model *)

NumSubs == 2          \* subscriber ids available to a run
NumPubs == 2          \* Publish calls that can be under way at once
MaxMsgs == 2          \* messages published in a run of Spec
SubMsgs == 1          \* messages published in a run of SubscriberSpec
CatchMsgs == 4        \* messages published in a run of CatchUpSpec
InboxCap == 1         \* bufferSize handed to NewSubscriber
CacheSize == 3        \* stands for the cache size 100 of getOrCreateTopic
CatchUpLimit == 2     \* stands for the 50 of GetLast(50) in sendRecentMessages
MaxAdds == 7          \* Add calls in a run of CacheSpec
BreakerLimit == 1     \* stands for the 100 of `dropped > 100` in handleBackPressure
MaxCloseCalls == 2    \* the count of Close calls of a subscriber saturates here

----------------------------------------------------------------------------
(* Strings *)

\* a Go string literal as a sequence of characters (a model string of length
\* n is the sequence of its n one-character substrings)
Str(lit) ==
    CASE lit = "a" -> <<"a">>
      [] lit = "c" -> <<"c">>
      [] lit = "a:b" -> <<"a", ":", "b">>
      [] lit = "b:c" -> <<"b", ":", "c">>

Tenants == { Str("a"), Str("a:b") }
Names == { Str("c"), Str("b:c") }
Pairs == Tenants \X Names

\* fmt.Sprintf("%s:%s", tenantID, topicName)
makeTopicKey(tenantID, topicName) == tenantID \o <<":">> \o topicName

Min(a, b) == IF a < b THEN a ELSE b

----------------------------------------------------------------------------
(* Message *)

\* "msg-" + time.Now().Format("20060102-150405.000000"): the clock reading at
\* microsecond resolution; two calls within one microsecond format alike.
GenerateId(t) == <<"msg-", t>>

NewMessage(topic, tenantID, data, t) ==
    [Id |-> GenerateId(t), Topic |-> topic, TenantID |-> tenantID, Data |-> data]

\* the zero Message held by unused cache slots
ZeroMessage == [Id |-> <<>>, Topic |-> <<>>, TenantID |-> <<>>, Data |-> 0]

----------------------------------------------------------------------------
(* RecentMessageCache: a ring; messages[i + 1] is slot i of the Go slice *)

NewRecentMessageCache(size) ==
    [messages |-> [i \in 1..size |-> ZeroMessage], size |-> size, index |-> 0, count |-> 0]

CacheAdd(c, msg) ==
    [c EXCEPT !.messages[c.index + 1] = msg,
              !.index = (c.index + 1) % c.size,
              !.count = IF c.count < c.size THEN c.count + 1 ELSE c.count]

GetLastFromIndex(c, n0) ==
    LET n == IF n0 > c.count THEN c.count ELSE n0
    IN  [i \in 1..n |-> c.messages[((c.index + (i - 1)) % c.size) + 1]]

GetLast(c, n0) ==
    LET n == IF n0 > c.count THEN c.count ELSE n0
        startPost == (c.index - n + c.size) % c.size
    IN  IF n = 0 THEN <<>>
        ELSE [i \in 1..n |-> c.messages[((startPost + (i - 1)) % c.size) + 1]]

CacheClear(c) == [c EXCEPT !.index = 0, !.count = 0]

GetCount(c) == c.count

----------------------------------------------------------------------------
(* Subscriber *)

DropStrategies == {"DROP_OLDEST", "DROP_NEWEST", "CIRCUIT_BREAKER"}

\* the bufferSize values a run may hand to NewSubscriber
Caps == 1..(InboxCap + 1)

\* A subscriber id that no NewSubscriber call has used yet. The fields after cur
\* are history: the messages written to the transport, the inbox depth when
\* Close ran, the number of messages published to the topic before Subscribe,
\* the number of messages constructed before Unsubscribe removed it, the
\* messages enqueued to the inbox.
NoSubscriber ==
    [state |-> "none", TenantID |-> <<>>, Topic |-> <<>>, cap |-> 0,
     messageChan |-> <<>>, dropStrategy |-> "DROP_OLDEST",
     droppedCount |-> 0, messagesRecieved |-> 0, messagesSent |-> 0,
     closeOnce |-> FALSE, cancelled |-> 0, doneClosed |-> 0, connClosed |-> 0,
     chanClosed |-> 0, closeCalls |-> 0,
     loop |-> "none", cur |-> ZeroMessage,
     written |-> <<>>, inboxAtClose |-> 0, subAt |-> 0, leftAt |-> 0,
     queued |-> <<>>]

\* The subscribe handler returned an error for this subscriber: the connection
\* is closed with StatusInternalError and the object is dropped.
Rejected == [NoSubscriber EXCEPT !.state = "rejected"]

\* NewSubscriber(id, tenantID, topic, conn, ctx, bufferSize); the strategy is
\* DROP_OLDEST unless code of package core sets the field afterwards.
NewSubscriber(tenantID, topic, bufferSize, strategy) ==
    [NoSubscriber EXCEPT !.state = "created", !.TenantID = tenantID, !.Topic = topic,
                         !.cap = bufferSize, !.dropStrategy = strategy]

\* A Close that runs its body on every call.
CloseNoOnce(r) ==
    [r EXCEPT !.closeCalls = Min(@ + 1, MaxCloseCalls), !.closeOnce = TRUE,
              !.cancelled = @ + 1, !.doneClosed = @ + 1,
              !.connClosed = @ + 1, !.chanClosed = @ + 1]

\* Subscriber.Close: closeOnce.Do(cancel; close(done); conn.Close; close(messageChan))
Close(r) ==
    IF r.closeOnce
    THEN [r EXCEPT !.closeCalls = Min(@ + 1, MaxCloseCalls)]
    ELSE [r EXCEPT !.closeCalls = Min(@ + 1, MaxCloseCalls), !.closeOnce = TRUE,
                   !.cancelled = @ + 1, !.doneClosed = @ + 1,
                   !.connClosed = @ + 1, !.chanClosed = @ + 1,
                   !.inboxAtClose = Len(r.messageChan)]

\* An enqueue that puts the message at the head of the queue.
EnqueueAtHead(r, msg) ==
    [r EXCEPT !.messageChan = <<msg>> \o @]

\* a successful `s.messageChan <- msg`
Enqueue(r, msg) ==
    [r EXCEPT !.messageChan = Append(@, msg),
              !.queued = IF lim.queues THEN Append(@, msg) ELSE @]

\* One atomic step of a goroutine that runs SendMessages(msg) on subscriber r.
\* pc "send": messagesRecieved.Add(1) and the first select;
\* pc "bp":   handleBackPressure up to its first channel operation;
\* pc "retry": the second select of DROP_OLDEST.
\* The result gives the subscriber, the next position ("done" when the call
\* returned), whether it returned an error, whether it enqueued, and whether
\* the send hit a closed channel (a run-time panic).
SendMessagesStep(r, pc, msg) ==
    CASE pc = "send" ->
           LET r1 == [r EXCEPT !.messagesRecieved = @ + 1]
           IN  IF r.chanClosed > 0
               THEN [sub |-> r1, pc |-> "panic", err |-> FALSE, enq |-> FALSE]
               ELSE IF Len(r.messageChan) < r.cap
               THEN [sub |-> Enqueue(r1, msg), pc |-> "done", err |-> FALSE, enq |-> TRUE]
               ELSE [sub |-> r1, pc |-> "bp", err |-> FALSE, enq |-> FALSE]
      [] pc = "bp" /\ r.dropStrategy = "DROP_OLDEST" ->
           IF Len(r.messageChan) > 0
           THEN [sub |-> [r EXCEPT !.messageChan = Tail(@), !.droppedCount = @ + 1],
                 pc |-> "retry", err |-> FALSE, enq |-> FALSE]
           ELSE IF r.chanClosed > 0
           \* a receive from a closed, drained channel is ready and yields the zero value
           THEN [sub |-> [r EXCEPT !.droppedCount = @ + 1],
                 pc |-> "retry", err |-> FALSE, enq |-> FALSE]
           ELSE [sub |-> r, pc |-> "retry", err |-> FALSE, enq |-> FALSE]
      [] pc = "bp" /\ r.dropStrategy = "DROP_NEWEST" ->
           [sub |-> [r EXCEPT !.droppedCount = @ + 1],
            pc |-> "done", err |-> TRUE, enq |-> FALSE]
      [] pc = "bp" /\ r.dropStrategy = "CIRCUIT_BREAKER" ->
           IF r.droppedCount > BreakerLimit
           THEN [sub |-> Close(r), pc |-> "done", err |-> TRUE, enq |-> FALSE]
           ELSE [sub |-> r, pc |-> "done", err |-> FALSE, enq |-> FALSE]
      [] pc = "retry" ->
           IF r.chanClosed > 0
           THEN [sub |-> r, pc |-> "panic", err |-> FALSE, enq |-> FALSE]
           ELSE IF Len(r.messageChan) < r.cap
           THEN [sub |-> Enqueue(r, msg), pc |-> "done", err |-> FALSE, enq |-> TRUE]
           ELSE [sub |-> [r EXCEPT !.droppedCount = @ + 1],
                 pc |-> "done", err |-> TRUE, enq |-> FALSE]

----------------------------------------------------------------------------
(* AdaptiveThrottler. Time is in seconds (lastCheckTime is a Unix time in      *)
(* seconds); usages and thresholds are in thousandths.                         *)

CPUThreshold == 800
MemoryThreshold == 800
SlowSubThreshold == 500
ThrottleDuration == 5
CheckInterval == 1

NumCallers == 2       \* concurrent ShouldThrottle callers (publish handlers)
MaxTime == 7          \* the run ends at this time
MaxCount == 1         \* largest subscriber count the monitor pushes
MaxTimers == 2        \* direct StartThrottling calls stop at this many pending timers

CallerIds == 1..NumCallers
IdleCaller == [pc |-> "idle", at |-> 0, ret |-> "none"]

\* what getCPUUsage and getMemoryUsage may return
UsageSamples == {500, 900}

\* StartThrottling without the store of true
StartThrottlingTimerOnly(t) ==
    /\ thr' = thr
    /\ timers' = timers \cup {t + ThrottleDuration}

\* A StartThrottling whose timer replaces the pending ones.
StartThrottlingRestart(t) ==
    /\ thr' = [thr EXCEPT !.isThrottling = TRUE,
                          !.since = IF thr.isThrottling THEN @ ELSE t]
    /\ timers' = {t + ThrottleDuration}

\* StartThrottling at time t: isThrottling.Store(true); go { Sleep(ThrottleDuration); StopThrottling() }
\* (since is history: the time of the store that turned the flag from false to
\* true, 0 while the flag is off)
StartThrottling(t) ==
    /\ thr' = [thr EXCEPT !.isThrottling = TRUE,
                          !.since = IF thr.isThrottling THEN @ ELSE t]
    /\ timers' = timers \cup {t + ThrottleDuration}

\* shouldThrottle of ShouldThrottle, from the loaded counts and the sampled usages
ThrottleDecision(slowSubs, totalSubs, cpuUsage, memoryUsage) ==
    /\ totalSubs # 0
    /\ slowSubs * 1000 > SlowSubThreshold * totalSubs
    /\ (cpuUsage > CPUThreshold \/ memoryUsage > MemoryThreshold)

\* ShouldThrottle, first load: if at.isThrottling.Load() { return true }
ShouldThrottleEnter(c) ==
    /\ callers[c].pc = "idle"
    /\ c <= lim.pubs
    /\ callers' = [callers EXCEPT ![c] =
          IF thr.isThrottling THEN [pc |-> "idle", at |-> 0, ret |-> "true"]
          ELSE [pc |-> "check", at |-> 0, ret |-> "none"]]
    /\ UNCHANGED <<thr, now, timers, monitor, coreVars, lim, buf, reg>>

\* now := time.Now(); if now.Sub(lastCheck) < CheckInterval { return isThrottling.Load() }
ShouldThrottleCheck(c) ==
    /\ callers[c].pc = "check"
    /\ callers' = [callers EXCEPT ![c] =
          IF now - thr.lastCheckTime < CheckInterval
          THEN [pc |-> "idle", at |-> 0,
                ret |-> IF thr.isThrottling THEN "true" ELSE "false"]
          ELSE [pc |-> "store", at |-> now, ret |-> "none"]]
    /\ UNCHANGED <<thr, now, timers, monitor, coreVars, lim, buf, reg>>

\* at.lastCheckTime.Store(now.Unix())
ShouldThrottleStore(c) ==
    /\ callers[c].pc = "store"
    /\ thr' = [thr EXCEPT !.lastCheckTime = callers[c].at]
    /\ callers' = [callers EXCEPT ![c].pc = "sample", ![c].at = 0]
    /\ UNCHANGED <<now, timers, monitor, coreVars, lim, buf, reg>>

\* sample the usages, load the counts, decide
ShouldThrottleSample(c, cpuUsage, memoryUsage) ==
    /\ callers[c].pc = "sample"
    /\ callers' = [callers EXCEPT ![c] =
          IF ThrottleDecision(thr.slowSubCount, thr.totalSubCount, cpuUsage, memoryUsage)
          THEN [pc |-> "arm", at |-> 0, ret |-> "none"]
          ELSE [pc |-> "idle", at |-> 0, ret |-> "false"]]
    /\ UNCHANGED <<thr, now, timers, monitor, coreVars, lim, buf, reg>>

\* if shouldThrottle { at.StartThrottling() }; return shouldThrottle
ShouldThrottleArm(c) ==
    /\ callers[c].pc = "arm"
    /\ StartThrottling(now)
    /\ callers' = [callers EXCEPT ![c] = [pc |-> "idle", at |-> 0, ret |-> "true"]]
    /\ UNCHANGED <<now, monitor, coreVars, lim, buf, reg>>

\* the timer goroutine of an arm wakes up (not before its time) and calls StopThrottling
StopThrottling(w) ==
    /\ w \in timers
    /\ w <= now
    /\ thr' = [thr EXCEPT !.isThrottling = FALSE, !.since = 0]
    /\ timers' = timers \ {w}
    /\ UNCHANGED <<now, callers, monitor, coreVars, lim, buf, reg>>

\* UpdateSubscriber(slowCount, totalCount): the first store (slowBefore is
\* history: the slow count of the push before this one)
UpdateSubscriberSlow(slowCount, totalCount) ==
    /\ monitor.pc = "idle"
    /\ thr' = [thr EXCEPT !.slowSubCount = slowCount]
    /\ monitor' = [pc |-> "total", total |-> totalCount,
                   slowBefore |-> IF lim.logs THEN thr.slowSubCount ELSE 0]
    /\ UNCHANGED <<now, timers, callers, coreVars, lim, buf, reg>>

\* UpdateSubscriber: the second store
UpdateSubscriberTotal ==
    /\ monitor.pc = "total"
    /\ thr' = [thr EXCEPT !.totalSubCount = monitor.total]
    /\ monitor' = [pc |-> "idle", total |-> 0, slowBefore |-> 0]
    /\ UNCHANGED <<now, timers, callers, coreVars, lim, buf, reg>>

\* a second passes
Tick ==
    /\ now < MaxTime
    /\ now' = now + 1
    /\ UNCHANGED <<thr, timers, callers, monitor, coreVars, lim, buf, reg>>

\* a second passes, with timer goroutines that wake up on time: no timer is overdue
TickPrompt ==
    /\ now < MaxTime
    /\ \A w \in timers : now < w
    /\ now' = now + 1
    /\ UNCHANGED <<thr, timers, callers, monitor, coreVars, lim, buf, reg>>

\* a call of the exported StartThrottling from outside ShouldThrottle, while
\* the flag is on
StartThrottlingCall ==
    /\ thr.isThrottling
    /\ Cardinality(timers) < MaxTimers
    /\ StartThrottling(now)
    /\ UNCHANGED <<now, callers, monitor, coreVars, lim, buf, reg>>

----------------------------------------------------------------------------
(* AddaptiveBufferManager. Memory is in bytes. The int32 of the code is an     *)
(* integer of IntBits bits here, wide enough for every buffer size and narrow  *)
(* enough for the sampled memory sizes to overflow it.                         *)

MinBifferSize == 100
MaxBufferSize == 1000
AvgMessSize == 1024

IntBits == 12         \* width of the model's int32

\* int32(x): the low IntBits bits of x, read as a signed number
ToInt32(x) == ((x + 2^(IntBits - 1)) % 2^IntBits) - 2^(IntBits - 1)

\* max_total_memory and heap sizes, in messages: none, between the limits,
\* above the maximum, beyond the int32 range
MemorySamples == { AvgMessSize * k : k \in {0, 500, 1500, 4600} }

\* NewAdaptiveBufferManager(maxMemort), maxMemort one of mems. The fields
\* after bufferSize are history: whether a recalculation tick has happened,
\* and the heap size and the subscriber count of the last one.
InitBuffer(mems) ==
    \E m \in mems : buf = [maxTotalMemory |-> m, bufferSize |-> MaxBufferSize,
                            ticked |-> FALSE, alloc |-> 0, count |-> 0]

GetBufferSize == buf.bufferSize

\* the two clamps of recalculate
ClampBufferSize(bufferPerSub) ==
    IF bufferPerSub < MinBifferSize THEN MinBifferSize
    ELSE IF bufferPerSub > MaxBufferSize THEN MaxBufferSize
    ELSE bufferPerSub

\* A recalculate that stores the quotient as it is.
BufferPerSubUnclamped(maxTotalMemory, currentMomory, subCount) ==
    LET availableMemory == IF maxTotalMemory - currentMomory < 0 THEN 0
                           ELSE maxTotalMemory - currentMomory
        memoryPerSub == availableMemory \div subCount
    IN  ToInt32(memoryPerSub \div AvgMessSize)

\* the value recalculate stores, for subCount > 0
BufferPerSub(maxTotalMemory, currentMomory, subCount) ==
    LET availableMemory == IF maxTotalMemory - currentMomory < 0 THEN 0
                           ELSE maxTotalMemory - currentMomory
        memoryPerSub == availableMemory \div subCount
    IN  ClampBufferSize(ToInt32(memoryPerSub \div AvgMessSize))

\* recalculate, with m.Alloc = currentMomory
Recalculate(currentMomory) ==
    /\ panicked = "none"
    /\ LET seen == IF lim.logs
                   THEN [buf EXCEPT !.ticked = TRUE, !.alloc = currentMomory,
                                    !.count = bufCount]
                   ELSE buf
       IN  buf' = IF bufCount = 0 THEN seen
                  ELSE [seen EXCEPT !.bufferSize =
                            BufferPerSub(buf.maxTotalMemory, currentMomory, bufCount)]
    /\ UNCHANGED <<coreVars, lim, thr, now, timers, callers, monitor, reg>>

----------------------------------------------------------------------------
(* Topic and TopicManager: state *)

SubIds == 1..NumSubs
PubIds == 1..NumPubs
Keys == { makeTopicKey(p[1], p[2]) : p \in Pairs }

NewTopic(name, tenantID, cacheSize) ==
    [name |-> name, tenantID |-> tenantID, subscribers |-> {},
     recentCache |-> NewRecentMessageCache(cacheSize),
     messagesPublished |-> 0, totalSubscribers |-> 0]

\* getOrCreateTopic: the registry after the call. The probe under the read lock
\* and the re-probe and insert under the write lock give one Topic per key.
getOrCreateTopic(tps, tenant_id, topic_name) ==
    LET topicKey == makeTopicKey(tenant_id, topic_name)
    IN  IF topicKey \in DOMAIN tps
        THEN tps
        ELSE (topicKey :> NewTopic(topic_name, tenant_id, CacheSize)) @@ tps

\* TopicManager.mu, a sync.RWMutex: readers is the number of read locks held;
\* w is the writer that holds the mutex's inner writer lock and has announced
\* itself, from which moment RLock blocks; held says that this writer has the
\* write lock (it gets it when the last reader has left). The other fields are
\* the positions of a GetMetrics call, a getOrCreateTopic call for a topic
\* that is created once, a ShutDown call and the monitor loop's counting.
\* goc holds concurrent getOrCreateTopic calls for one key, each with the Topic
\* it returned last (Topic objects are numbered as NewTopic makes them, 0 is
\* none); made is the number of Topic objects inserted under that key so far,
\* and the registry holds Topic number made when created is TRUE.
GetOrCreateCallers == {"publish", "subscribe", "publish2"}

IdleRegistry ==
    [readers |-> 0, w |-> "none", held |-> FALSE, created |-> FALSE,
     metrics |-> "idle", lookup |-> "idle", closer |-> "idle", counter |-> "idle",
     made |-> 0, goc |-> [c \in GetOrCreateCallers |-> [pc |-> "idle", topic |-> 0]],
     subMutex |-> [k \in Keys |-> [readers |-> {}, writer |-> 0]],
     all |-> "idle", printed |-> {}]

\* RLock returns at once unless a writer has announced itself
RLockReady == reg.w = "none"

\* Lock, first part: take the inner writer lock and announce
LockAnnounceReady == reg.w = "none"

\* Lock, second part: the announced writer who waits for the readers to leave
LockReady(who) == reg.w = who /\ ~reg.held /\ reg.readers = 0

IdlePub == [pc |-> "idle", key |-> <<>>, msg |-> ZeroMessage, tasks |-> <<>>]
NoCatchUp == [pc |-> "none", recent |-> <<>>, i |-> 0, histAt |-> 0, log |-> <<>>]

Running == panicked = "none"

InitCore ==
    /\ topics = <<>>
    /\ subs = [s \in SubIds |-> NoSubscriber]
    /\ pubs = [p \in PubIds |-> IdlePub]
    /\ catchup = [s \in SubIds |-> NoCatchUp]
    /\ bufCount = 0
    /\ shut = [once |-> FALSE, chanClosed |-> 0, returned |-> FALSE, calls |-> 0]
    /\ panicked = "none"
    /\ clock = 0
    /\ published = 0
    /\ lastErr = ""
    /\ hist = [k \in Keys |-> <<>>]
    /\ reg = IdleRegistry

\* NewAdaptiveThrottler(DefaultConfig()) at time 0, nobody calling yet
InitThrottle ==
    /\ thr = [isThrottling |-> FALSE, lastCheckTime |-> 0, slowSubCount |-> 0,
             totalSubCount |-> 0, since |-> 0]
    /\ now = 0
    /\ timers = {}
    /\ callers = [c \in CallerIds |-> IdleCaller]
    /\ monitor = [pc |-> "idle", total |-> 0, slowBefore |-> 0]


----------------------------------------------------------------------------
(* TopicManager.Subscribe, as the subscribe handler calls it on a fresh Subscriber *)

\* the lowest subscriber id not used yet (ids are fresh, like uuid.New())
FreshSub(s) == subs[s].state = "none" /\ \A x \in SubIds : x < s => subs[x].state # "none"

\* A Topic.Subscribe that accepts a subscriber of any tenant.
TenantMismatchIgnored(topic, sub) == FALSE

\* Topic.Subscribe: if t.tenantID != sub.TenantID
TenantMismatch(topic, sub) == topic.tenantID # sub.TenantID

Subscribe(s, subTenant, tenant_id, topic_name, bufferSize, strategy) ==
    /\ Running
    /\ FreshSub(s)
    /\ s <= lim.subs
    /\ <<tenant_id, topic_name>> \in lim.pairs
    /\ subTenant \in lim.subTenants
    /\ bufferSize \in lim.caps
    /\ strategy \in lim.strategies
    /\ LET sub == NewSubscriber(subTenant, topic_name, bufferSize, strategy)
           key == makeTopicKey(tenant_id, topic_name)
           tps == getOrCreateTopic(topics, tenant_id, topic_name)
           topic == tps[key]
       IN  IF sub.TenantID # tenant_id
           THEN \* TopicManager.Subscribe: tenant mismatch, before anything else
                /\ lastErr' = "tenant mismatch"
                /\ subs' = [subs EXCEPT ![s] = Rejected]
                /\ UNCHANGED <<topics, bufCount, catchup>>
           ELSE /\ bufCount' = bufCount + 1            \* AddNewSubscriber
                /\ IF TenantMismatch(topic, sub)
                   THEN \* Topic.Subscribe: tenant mismatch
                        /\ lastErr' = "tenant mismatch"
                        /\ topics' = tps
                        /\ subs' = [subs EXCEPT ![s] = Rejected]
                        /\ UNCHANGED catchup
                   ELSE /\ lastErr' = ""
                        /\ topics' = [tps EXCEPT ![key].subscribers = @ \cup {s},
                                                 ![key].totalSubscribers = @ + 1]
                        \* go t.sendRecentMessages(sub); sub.Start()
                        /\ catchup' = [catchup EXCEPT ![s].pc = "spawned"]
                        /\ subs' = [subs EXCEPT ![s] =
                              [sub EXCEPT !.state = "subscribed", !.loop = "idle",
                                          !.subAt = IF lim.joins THEN Len(hist[key]) ELSE 0]]
    /\ UNCHANGED <<pubs, shut, panicked, clock, published, hist, lim, sideVars>>

----------------------------------------------------------------------------
(* TopicManager.Publish, as the publish handler calls it *)

\* NewMessage, getOrCreateTopic, then Topic.Publish up to recentCache.Add
PublishBegin(p, tenant_id, topic_name, tick) ==
    /\ Running
    /\ pubs[p].pc = "idle"
    /\ p <= lim.pubs
    /\ \A q \in PubIds : q < p => pubs[q].pc # "idle"
    /\ published < lim.msgs
    /\ <<tenant_id, topic_name>> \in lim.pairs
    /\ tick \in lim.ticks
    /\ LET msg == NewMessage(topic_name, tenant_id, published + 1, clock + tick)
           key == makeTopicKey(tenant_id, topic_name)
           tps == getOrCreateTopic(topics, tenant_id, topic_name)
       IN  /\ topics' = [tps EXCEPT ![key].messagesPublished = @ + 1,
                                    ![key].recentCache = CacheAdd(@, msg)]
           /\ hist' = IF lim.logs THEN [hist EXCEPT ![key] = Append(@, msg)] ELSE hist
           /\ pubs' = [pubs EXCEPT ![p] = [pc |-> "added", key |-> key, msg |-> msg, tasks |-> <<>>]]
    /\ clock' = clock + tick
    /\ published' = published + 1
    /\ UNCHANGED <<subs, catchup, bufCount, shut, panicked, lastErr, lim, sideVars>>

\* A snapshot that holds one subscriber of the map at most.
PublishSnapshotOne(p) ==
    /\ Running
    /\ pubs[p].pc = "added"
    /\ LET members == topics[pubs[p].key].subscribers
           snapshot == IF members = {} THEN {} ELSE {CHOOSE s \in members : TRUE}
       IN  IF snapshot = {}
           THEN pubs' = [pubs EXCEPT ![p] = IdlePub]
           ELSE pubs' = [pubs EXCEPT ![p].pc = "fanout",
                                     ![p].tasks = [s \in snapshot |-> "send"]]
    /\ UNCHANGED <<topics, subs, catchup, bufCount, shut, panicked, clock, published,
                   lastErr, hist, lim, sideVars>>

\* getSubscribersSnapshot; return nil when it is empty, else start one goroutine each
PublishSnapshot(p) ==
    /\ Running
    /\ pubs[p].pc = "added"
    /\ LET snapshot == topics[pubs[p].key].subscribers
       IN  IF snapshot = {}
           THEN pubs' = [pubs EXCEPT ![p] = IdlePub]
           ELSE pubs' = [pubs EXCEPT ![p].pc = "fanout",
                                     ![p].tasks = [s \in snapshot |-> "send"]]
    /\ UNCHANGED <<topics, subs, catchup, bufCount, shut, panicked, clock, published,
                   lastErr, hist, lim, sideVars>>

\* one step of the fan-out goroutine of publish p for subscriber s
FanOutStep(p, s) ==
    /\ Running
    /\ pubs[p].pc = "fanout"
    /\ s \in DOMAIN pubs[p].tasks
    /\ pubs[p].tasks[s] \in {"send", "bp", "retry"}
    /\ LET r == SendMessagesStep(subs[s], pubs[p].tasks[s], pubs[p].msg)
       IN  /\ subs' = [subs EXCEPT ![s] = r.sub]
           /\ pubs' = [pubs EXCEPT ![p].tasks[s] = r.pc]
           /\ panicked' = IF r.pc = "panic" THEN "send on closed channel" ELSE panicked
    /\ UNCHANGED <<topics, catchup, bufCount, shut, clock, published, lastErr, hist,
                   lim, sideVars>>

\* wg.Wait() returns; Publish returns nil
PublishReturn(p) ==
    /\ Running
    /\ pubs[p].pc = "fanout"
    /\ \A s \in DOMAIN pubs[p].tasks : pubs[p].tasks[s] = "done"
    /\ pubs' = [pubs EXCEPT ![p] = IdlePub]
    /\ UNCHANGED <<topics, subs, catchup, bufCount, shut, panicked, clock, published,
                   lastErr, hist, lim, sideVars>>

----------------------------------------------------------------------------
(* Topic.sendRecentMessages: the catch-up goroutine of subscriber s *)

\* recent := t.recentCache.GetLast(50), with the model's limit
RecentAll(c) == GetLast(c, c.count)

RecentMessages(c) == GetLast(c, CatchUpLimit)

TopicKeyOf(s) == makeTopicKey(subs[s].TenantID, subs[s].Topic)

CatchUpSnapshot(s) ==
    /\ Running
    /\ catchup[s].pc = "spawned"
    /\ LET recent == RecentMessages(topics[TopicKeyOf(s)].recentCache)
       IN  catchup' = [catchup EXCEPT ![s] =
                 IF recent = <<>>
                 THEN [NoCatchUp EXCEPT !.pc = "done", !.histAt = Len(hist[TopicKeyOf(s)])]
                 ELSE [pc |-> "send", recent |-> recent, i |-> 1,
                       histAt |-> Len(hist[TopicKeyOf(s)]), log |-> <<>>]]
    /\ UNCHANGED <<topics, subs, pubs, bufCount, shut, panicked, clock, published,
                   lastErr, hist, lim, sideVars>>

\* one step of sub.SendMessages(recent[i]); an error ends the replay
CatchUpStep(s) ==
    /\ Running
    /\ catchup[s].pc \in {"send", "bp", "retry"}
    /\ LET c == catchup[s]
           r == SendMessagesStep(subs[s], c.pc, c.recent[c.i])
           log == IF r.enq /\ lim.logs THEN Append(c.log, c.recent[c.i]) ELSE c.log
           Finished(pc) == [NoCatchUp EXCEPT !.pc = pc, !.histAt = c.histAt, !.log = log]
       IN  /\ subs' = [subs EXCEPT ![s] = r.sub]
           /\ panicked' = IF r.pc = "panic" THEN "send on closed channel" ELSE panicked
           /\ catchup' = [catchup EXCEPT ![s] =
                 IF r.pc = "done"
                 THEN IF r.err THEN Finished("failed")
                      ELSE IF c.i = Len(c.recent) THEN Finished("done")
                      ELSE [c EXCEPT !.pc = "send", !.i = c.i + 1, !.log = log]
                 ELSE [c EXCEPT !.pc = r.pc, !.log = log]]
    /\ UNCHANGED <<topics, pubs, bufCount, shut, clock, published, lastErr, hist,
                   lim, sideVars>>

----------------------------------------------------------------------------
(* Subscriber.sendLoop: the delivery goroutine of subscriber s *)

\* A receive that takes the newest message of the inbox.
LoopReceiveNewest(s) ==
    /\ Running
    /\ subs[s].loop = "idle"
    /\ subs[s].messageChan # <<>>
    /\ subs' = [subs EXCEPT ![s].loop = "writing",
                            ![s].cur = subs[s].messageChan[Len(subs[s].messageChan)],
                            ![s].messageChan = SubSeq(@, 1, Len(@) - 1)]
    /\ UNCHANGED <<topics, pubs, catchup, bufCount, shut, panicked, clock, published,
                   lastErr, hist, lim, sideVars>>

\* case msg, ok := <-s.messageChan with a buffered message
LoopReceive(s) ==
    /\ Running
    /\ subs[s].loop = "idle"
    /\ subs[s].messageChan # <<>>
    /\ subs' = [subs EXCEPT ![s].loop = "writing",
                            ![s].cur = Head(subs[s].messageChan),
                            ![s].messageChan = Tail(@)]
    /\ UNCHANGED <<topics, pubs, catchup, bufCount, shut, panicked, clock, published,
                   lastErr, hist, lim, sideVars>>

\* A write that succeeds on a closed connection.
LoopWriteOkAfterClose(s) ==
    /\ Running
    /\ subs[s].loop = "writing"
    /\ subs' = [subs EXCEPT ![s].loop = "idle",
                            ![s].cur = ZeroMessage,
                            ![s].messagesSent = @ + 1,
                            ![s].written = IF lim.logs THEN Append(@, subs[s].cur) ELSE @]
    /\ UNCHANGED <<topics, pubs, catchup, bufCount, shut, panicked, clock, published,
                   lastErr, hist, lim, sideVars>>

\* sendToClient succeeded (wsjson.Write on an open connection with a live
\* context): messagesSent.Add(1)
LoopWriteOk(s) ==
    /\ Running
    /\ subs[s].loop = "writing"
    /\ subs[s].connClosed = 0
    /\ subs' = [subs EXCEPT ![s].loop = "idle",
                            ![s].cur = ZeroMessage,
                            ![s].messagesSent = @ + 1,
                            ![s].written = IF lim.logs THEN Append(@, subs[s].cur) ELSE @]
    /\ UNCHANGED <<topics, pubs, catchup, bufCount, shut, panicked, clock, published,
                   lastErr, hist, lim, sideVars>>

\* sendToClient failed (transport error, time-out, closed connection): Close, return
LoopWriteFail(s) ==
    /\ Running
    /\ subs[s].loop = "writing"
    /\ subs' = [subs EXCEPT ![s] = [Close(subs[s]) EXCEPT !.loop = "exited",
                                                         !.cur = ZeroMessage]]
    /\ UNCHANGED <<topics, pubs, catchup, bufCount, shut, panicked, clock, published,
                   lastErr, hist, lim, sideVars>>

\* case <-ticker.C with a failing Ping: Close, return
LoopPingFail(s) ==
    /\ Running
    /\ subs[s].loop = "idle"
    /\ subs' = [subs EXCEPT ![s] = [Close(subs[s]) EXCEPT !.loop = "exited"]]
    /\ UNCHANGED <<topics, pubs, catchup, bufCount, shut, panicked, clock, published,
                   lastErr, hist, lim, sideVars>>

\* case <-s.done, case <-s.ctx.Done(), or a receive from the closed, drained channel
LoopExit(s) ==
    /\ Running
    /\ subs[s].loop = "idle"
    /\ \/ subs[s].doneClosed > 0
       \/ subs[s].cancelled > 0
       \/ (subs[s].chanClosed > 0 /\ subs[s].messageChan = <<>>)
    /\ subs' = [subs EXCEPT ![s].loop = "exited"]
    /\ UNCHANGED <<topics, pubs, catchup, bufCount, shut, panicked, clock, published,
                   lastErr, hist, lim, sideVars>>

----------------------------------------------------------------------------
(* TopicManager.Unsubscribe and TopicManager.ShutDown *)

\* An Unsubscribe that goes on to OnSubscriberRemoval whatever Topic.Unsubscribe returned.
UnsubscribeIgnoringError(tenant_id, topic_name, subscriberID) ==
    /\ Running
    /\ <<tenant_id, topic_name>> \in lim.pairs
    /\ \/ lim.unsubAny
       \/ /\ subs[subscriberID].state = "subscribed"
          /\ subs[subscriberID].TenantID = tenant_id
          /\ subs[subscriberID].Topic = topic_name
    /\ LET topicKey == makeTopicKey(tenant_id, topic_name)
       IN  IF topicKey \notin DOMAIN topics
           THEN /\ lastErr' = "topic not found"
                /\ UNCHANGED <<topics, subs, bufCount>>
           ELSE IF subscriberID \notin topics[topicKey].subscribers
           THEN /\ lastErr' = "subscriber not found"
                /\ bufCount' = bufCount - 1
                /\ UNCHANGED <<topics, subs>>
           ELSE /\ topics' = [topics EXCEPT ![topicKey].subscribers = @ \ {subscriberID}]
                /\ subs' = [subs EXCEPT ![subscriberID] = [Close(@) EXCEPT !.state = "removed"]]
                /\ bufCount' = bufCount - 1
                /\ lastErr' = ""
    /\ UNCHANGED <<pubs, catchup, shut, panicked, clock, published, hist, lim, sideVars>>

\* An Unsubscribe that closes the subscriber and leaves it in the map.
UnsubscribeCloseOnly(tenant_id, topic_name, subscriberID) ==
    /\ Running
    /\ <<tenant_id, topic_name>> \in lim.pairs
    /\ \/ lim.unsubAny
       \/ /\ subs[subscriberID].state = "subscribed"
          /\ subs[subscriberID].TenantID = tenant_id
          /\ subs[subscriberID].Topic = topic_name
    /\ LET topicKey == makeTopicKey(tenant_id, topic_name)
       IN  IF topicKey \notin DOMAIN topics
           THEN /\ lastErr' = "topic not found"
                /\ UNCHANGED <<topics, subs, bufCount>>
           ELSE IF subscriberID \notin topics[topicKey].subscribers
           THEN /\ lastErr' = "subscriber not found"
                /\ UNCHANGED <<topics, subs, bufCount>>
           ELSE /\ topics' = topics
                /\ subs' = [subs EXCEPT ![subscriberID] =
                      [Close(@) EXCEPT !.state = "removed",
                                       !.leftAt = IF lim.joins THEN published ELSE 0]]
                /\ bufCount' = bufCount - 1
                /\ lastErr' = ""
    /\ UNCHANGED <<pubs, catchup, shut, panicked, clock, published, hist, lim, sideVars>>

Unsubscribe(tenant_id, topic_name, subscriberID) ==
    /\ Running
    /\ <<tenant_id, topic_name>> \in lim.pairs
    /\ \/ lim.unsubAny
       \/ /\ subs[subscriberID].state = "subscribed"
          /\ subs[subscriberID].TenantID = tenant_id
          /\ subs[subscriberID].Topic = topic_name
    /\ LET topicKey == makeTopicKey(tenant_id, topic_name)
       IN  IF topicKey \notin DOMAIN topics
           THEN /\ lastErr' = "topic not found"
                /\ UNCHANGED <<topics, subs, bufCount>>
           ELSE IF subscriberID \notin topics[topicKey].subscribers
           THEN /\ lastErr' = "subscriber not found"
                /\ UNCHANGED <<topics, subs, bufCount>>
           ELSE \* Topic.Unsubscribe under the topic's write lock: delete, then
                \* sub.Close(); then OnSubscriberRemoval
                /\ topics' = [topics EXCEPT ![topicKey].subscribers = @ \ {subscriberID}]
                /\ subs' = [subs EXCEPT ![subscriberID] =
                      [Close(@) EXCEPT !.state = "removed",
                                       !.leftAt = IF lim.joins THEN published ELSE 0]]
                /\ bufCount' = bufCount - 1
                /\ lastErr' = ""
    /\ UNCHANGED <<pubs, catchup, shut, panicked, clock, published, hist, lim, sideVars>>

\* every subscriber of every topic's snapshot
AllSubscribers(tps) == UNION { tps[k].subscribers : k \in DOMAIN tps }

\* A ShutDown that runs its body on every call.
ShutDownNoOnce ==
    /\ Running
    /\ shut' = [once |-> TRUE, chanClosed |-> shut.chanClosed + 1, returned |-> TRUE,
                calls |-> Min(shut.calls + 1, 2)]
    /\ subs' = [s \in SubIds |->
                  IF s \in AllSubscribers(topics) THEN Close(subs[s]) ELSE subs[s]]
    /\ panicked' = IF shut.chanClosed > 0 THEN "close of closed channel" ELSE panicked
    /\ UNCHANGED <<topics, pubs, catchup, bufCount, clock, published,
                   lastErr, hist, lim, sideVars>>

\* shutDownOnce.Do(close(shutDownChan); Close every subscriber of every topic)
ShutDown ==
    /\ Running
    /\ IF shut.once
       THEN /\ shut' = [shut EXCEPT !.calls = Min(@ + 1, 2)]
            /\ UNCHANGED subs
       ELSE /\ shut' = [once |-> TRUE, chanClosed |-> shut.chanClosed + 1, returned |-> TRUE,
                        calls |-> Min(shut.calls + 1, 2)]
            /\ subs' = [s \in SubIds |->
                          IF s \in AllSubscribers(topics) THEN Close(subs[s]) ELSE subs[s]]
    /\ UNCHANGED <<topics, pubs, catchup, bufCount, panicked, clock, published,
                   lastErr, hist, lim, sideVars>>

----------------------------------------------------------------------------
(* Specifications of the delivery core *)

\* every operation of the core, with a transport that may fail at any write or ping
CoreNext ==
    \/ \E s \in SubIds, subTenant \in Tenants, pr \in Pairs, b \in Caps,
          st \in DropStrategies : Subscribe(s, subTenant, pr[1], pr[2], b, st)
    \/ \E p \in PubIds, pr \in Pairs, tick \in {0, 1} : PublishBegin(p, pr[1], pr[2], tick)
    \/ \E p \in PubIds : PublishSnapshot(p)
    \/ \E p \in PubIds, s \in SubIds : FanOutStep(p, s)
    \/ \E p \in PubIds : PublishReturn(p)
    \/ \E s \in SubIds : CatchUpSnapshot(s)
    \/ \E s \in SubIds : CatchUpStep(s)
    \/ \E s \in SubIds : LoopReceive(s)
    \/ \E s \in SubIds : LoopWriteOk(s)
    \/ \E s \in SubIds : LoopWriteFail(s)
    \/ \E s \in SubIds : LoopPingFail(s)
    \/ \E s \in SubIds : LoopExit(s)
    \/ \E pr \in Pairs, s \in SubIds : Unsubscribe(pr[1], pr[2], s)
    \/ ShutDown

\* The registry as the handlers drive it: one subscriber connection and one
\* publisher at a time, both tenants, three (tenant, name) pairs of which two
\* share a composite key, the default strategy. The handler passes the
\* subscriber's own tenant and topic to Subscribe and Unsubscribe.
LimMain ==
    [pairs |-> Pairs \ {<<Str("a:b"), Str("b:c")>>}, subTenants |-> Tenants,
     caps |-> {InboxCap}, strategies |-> {"DROP_OLDEST"}, msgs |-> MaxMsgs,
     ticks |-> {1}, subs |-> 1, pubs |-> 1, unsubAny |-> FALSE, logs |-> FALSE, joins |-> FALSE, queues |-> FALSE]

Init == InitCore /\ InitThrottle /\ InitBuffer({AvgMessSize * MaxBufferSize}) /\ lim = LimMain

Spec == Init /\ [][CoreNext]_vars

\* One subscriber on one topic, with every drop strategy and two concurrent
\* publishers.
LimSubscriber ==
    [pairs |-> {<<Str("a"), Str("c")>>}, subTenants |-> {Str("a")},
     caps |-> 1..InboxCap, strategies |-> DropStrategies, msgs |-> SubMsgs,
     ticks |-> {1}, subs |-> 1, pubs |-> 2, unsubAny |-> FALSE, logs |-> FALSE, joins |-> FALSE, queues |-> FALSE]

SubscriberInit == InitCore /\ InitThrottle /\ InitBuffer({AvgMessSize * MaxBufferSize}) /\ lim = LimSubscriber

SubscriberSpec == SubscriberInit /\ [][CoreNext]_vars

\* Catch-up on one topic: one subscriber joins while one publisher publishes more
\* messages than the cache holds; the transport is reliable, the client may leave.
LimCatchUp ==
    [pairs |-> {<<Str("a"), Str("c")>>}, subTenants |-> {Str("a")},
     caps |-> {InboxCap}, strategies |-> {"DROP_OLDEST"}, msgs |-> CatchMsgs,
     ticks |-> {1}, subs |-> 1, pubs |-> 1, unsubAny |-> FALSE, logs |-> TRUE, joins |-> FALSE, queues |-> FALSE]

CatchUpNext ==
    \/ \E s \in SubIds, subTenant \in Tenants, pr \in Pairs, b \in Caps,
          st \in DropStrategies : Subscribe(s, subTenant, pr[1], pr[2], b, st)
    \/ \E p \in PubIds, pr \in Pairs, tick \in {0, 1} : PublishBegin(p, pr[1], pr[2], tick)
    \/ \E p \in PubIds : PublishSnapshot(p)
    \/ \E p \in PubIds, s \in SubIds : FanOutStep(p, s)
    \/ \E p \in PubIds : PublishReturn(p)
    \/ \E s \in SubIds : CatchUpSnapshot(s)
    \/ \E s \in SubIds : CatchUpStep(s)
    \/ \E s \in SubIds : LoopReceive(s)
    \/ \E s \in SubIds : LoopWriteOk(s)
    \/ \E s \in SubIds : LoopExit(s)
    \/ \E pr \in Pairs, s \in SubIds : Unsubscribe(pr[1], pr[2], s)

CatchUpInit == InitCore /\ InitThrottle /\ InitBuffer({AvgMessSize * MaxBufferSize}) /\ lim = LimCatchUp

CatchUpSpec == CatchUpInit /\ [][CatchUpNext]_vars

\* Live delivery and replay together: one subscriber joins one topic before,
\* between or after the publishes of one publisher; the transport is reliable.
\* The position of the join in the topic's history is recorded.
LimDelivery ==
    [pairs |-> {<<Str("a"), Str("c")>>}, subTenants |-> {Str("a")},
     caps |-> {InboxCap}, strategies |-> {"DROP_OLDEST"}, msgs |-> MaxMsgs,
     ticks |-> {1}, subs |-> 1, pubs |-> 1, unsubAny |-> FALSE, logs |-> TRUE, joins |-> TRUE, queues |-> FALSE]

DeliveryInit == InitCore /\ InitThrottle /\ InitBuffer({AvgMessSize * MaxBufferSize}) /\ lim = LimDelivery

DeliverySpec == DeliveryInit /\ [][CatchUpNext]_vars

\* A CIRCUIT_BREAKER subscriber behind a stalled transport: the delivery loop
\* takes at most one message and never comes back from its write; one publisher
\* publishes more messages than the breaker's limit plus the inbox.
LimBreaker ==
    [pairs |-> {<<Str("a"), Str("c")>>}, subTenants |-> {Str("a")},
     caps |-> {InboxCap}, strategies |-> {"CIRCUIT_BREAKER"},
     msgs |-> BreakerLimit + InboxCap + 2,
     ticks |-> {1}, subs |-> 1, pubs |-> 1, unsubAny |-> FALSE, logs |-> FALSE, joins |-> FALSE, queues |-> FALSE]

StalledNext ==
    \/ \E s \in SubIds, subTenant \in Tenants, pr \in Pairs, b \in Caps,
          st \in DropStrategies : Subscribe(s, subTenant, pr[1], pr[2], b, st)
    \/ \E p \in PubIds, pr \in Pairs, tick \in {0, 1} : PublishBegin(p, pr[1], pr[2], tick)
    \/ \E p \in PubIds : PublishSnapshot(p)
    \/ \E p \in PubIds, s \in SubIds : FanOutStep(p, s)
    \/ \E p \in PubIds : PublishReturn(p)
    \/ \E s \in SubIds : CatchUpSnapshot(s)
    \/ \E s \in SubIds : CatchUpStep(s)
    \/ \E s \in SubIds : LoopReceive(s)

BreakerInit == InitCore /\ InitThrottle /\ InitBuffer({AvgMessSize * MaxBufferSize}) /\ lim = LimBreaker

BreakerSpec == BreakerInit /\ [][StalledNext]_vars

\* A DROP_OLDEST subscriber with an inbox of more than one slot behind a stalled
\* transport; one publisher publishes more messages than the inbox holds.
LimOverflow ==
    [pairs |-> {<<Str("a"), Str("c")>>}, subTenants |-> {Str("a")},
     caps |-> {InboxCap + 1}, strategies |-> {"DROP_OLDEST"},
     msgs |-> InboxCap + 3,
     ticks |-> {1}, subs |-> 1, pubs |-> 1, unsubAny |-> FALSE, logs |-> TRUE, joins |-> FALSE, queues |-> FALSE]

OverflowInit == InitCore /\ InitThrottle /\ InitBuffer({AvgMessSize * MaxBufferSize}) /\ lim = LimOverflow

OverflowSpec == OverflowInit /\ [][StalledNext]_vars

\* Message construction under concurrent publishers: two publish requests at a
\* time, each constructing its message within the clock tick of the previous
\* one or in a later one.
LimIds ==
    [pairs |-> {<<Str("a"), Str("c")>>}, subTenants |-> {Str("a")},
     caps |-> {InboxCap}, strategies |-> {"DROP_OLDEST"}, msgs |-> MaxMsgs,
     ticks |-> {0, 1}, subs |-> 1, pubs |-> 2, unsubAny |-> FALSE, logs |-> TRUE, joins |-> FALSE, queues |-> FALSE]

IdsInit == InitCore /\ InitThrottle /\ InitBuffer({AvgMessSize * MaxBufferSize}) /\ lim = LimIds

IdsSpec == IdsInit /\ [][CatchUpNext]_vars

\* The buffer manager beside the registry: two subscribers join one topic
\* behind stalled transports (their inboxes fill) while recalculate runs with
\* any heap size, for any configured max_total_memory.
LimBuffer ==
    [pairs |-> {<<Str("a"), Str("c")>>}, subTenants |-> {Str("a")},
     caps |-> {InboxCap}, strategies |-> {"DROP_OLDEST"}, msgs |-> SubMsgs,
     ticks |-> {1}, subs |-> 2, pubs |-> 1, unsubAny |-> FALSE, logs |-> FALSE, joins |-> FALSE, queues |-> FALSE]

BufferNext ==
    \/ \E s \in SubIds, subTenant \in Tenants, pr \in Pairs, b \in Caps,
          st \in DropStrategies : Subscribe(s, subTenant, pr[1], pr[2], b, st)
    \/ \E p \in PubIds, pr \in Pairs, tick \in {0, 1} : PublishBegin(p, pr[1], pr[2], tick)
    \/ \E p \in PubIds : PublishSnapshot(p)
    \/ \E p \in PubIds, s \in SubIds : FanOutStep(p, s)
    \/ \E p \in PubIds : PublishReturn(p)
    \/ \E s \in SubIds : CatchUpSnapshot(s)
    \/ \E s \in SubIds : CatchUpStep(s)
    \/ \E s \in SubIds : LoopReceive(s)
    \/ \E currentMomory \in MemorySamples : Recalculate(currentMomory)

BufferInit == InitCore /\ InitThrottle /\ InitBuffer(MemorySamples) /\ lim = LimBuffer

BufferSpec == BufferInit /\ [][BufferNext]_vars

\* Unsubscribe called through the API with any subscriber id, subscribed or not,
\* also repeatedly, on a topic that exists or not.
LimUnsubscribe ==
    [pairs |-> {<<Str("a"), Str("c")>>, <<Str("a"), Str("b:c")>>}, subTenants |-> {Str("a")},
     caps |-> {InboxCap}, strategies |-> {"DROP_OLDEST"}, msgs |-> SubMsgs,
     ticks |-> {1}, subs |-> 1, pubs |-> 1, unsubAny |-> TRUE, logs |-> FALSE, joins |-> FALSE, queues |-> FALSE]

UnsubscribeInit == InitCore /\ InitThrottle /\ InitBuffer({AvgMessSize * MaxBufferSize}) /\ lim = LimUnsubscribe

UnsubscribeSpec == UnsubscribeInit /\ [][CoreNext]_vars

\* Leaving: two subscribers on one topic behind stalled transports, either may
\* leave while one publisher publishes. The number of messages constructed
\* before a subscriber left is recorded.
LimLeave ==
    [pairs |-> {<<Str("a"), Str("c")>>}, subTenants |-> {Str("a")},
     caps |-> {InboxCap}, strategies |-> {"DROP_OLDEST"}, msgs |-> SubMsgs,
     ticks |-> {1}, subs |-> 2, pubs |-> 1, unsubAny |-> FALSE, logs |-> FALSE, joins |-> TRUE, queues |-> FALSE]

LeaveNext ==
    \/ \E s \in SubIds, subTenant \in Tenants, pr \in Pairs, b \in Caps,
          st \in DropStrategies : Subscribe(s, subTenant, pr[1], pr[2], b, st)
    \/ \E p \in PubIds, pr \in Pairs, tick \in {0, 1} : PublishBegin(p, pr[1], pr[2], tick)
    \/ \E p \in PubIds : PublishSnapshot(p)
    \/ \E p \in PubIds, s \in SubIds : FanOutStep(p, s)
    \/ \E p \in PubIds : PublishReturn(p)
    \/ \E s \in SubIds : CatchUpSnapshot(s)
    \/ \E s \in SubIds : CatchUpStep(s)
    \/ \E pr \in Pairs, s \in SubIds : Unsubscribe(pr[1], pr[2], s)

LeaveInit == InitCore /\ InitThrottle /\ InitBuffer({AvgMessSize * MaxBufferSize}) /\ lim = LimLeave

LeaveSpec == LeaveInit /\ [][LeaveNext]_vars

\* Two publish handlers and two connections on one topic, with Unsubscribe
\* and ShutDown calls; the messages appended to the cache, the moment of each Subscribe and
\* the messages enqueued to each inbox are recorded.
LimFanOut ==
    [pairs |-> {<<Str("a"), Str("c")>>}, subTenants |-> {Str("a")},
     caps |-> {InboxCap}, strategies |-> {"DROP_OLDEST"}, msgs |-> MaxMsgs,
     ticks |-> {1}, subs |-> 2, pubs |-> 2, unsubAny |-> FALSE, logs |-> TRUE, joins |-> TRUE, queues |-> TRUE]

FanOutNext ==
    \/ \E s \in SubIds, subTenant \in Tenants, pr \in Pairs, b \in Caps,
          st \in DropStrategies : Subscribe(s, subTenant, pr[1], pr[2], b, st)
    \/ \E p \in PubIds, pr \in Pairs, tick \in {0, 1} : PublishBegin(p, pr[1], pr[2], tick)
    \/ \E p \in PubIds : PublishSnapshot(p)
    \/ \E p \in PubIds, s \in SubIds : FanOutStep(p, s)
    \/ \E p \in PubIds : PublishReturn(p)
    \/ \E pr \in Pairs, s \in SubIds : Unsubscribe(pr[1], pr[2], s)
    \/ ~shut.once /\ ShutDown

FanOutInit == InitCore /\ InitThrottle /\ InitBuffer({AvgMessSize * MaxBufferSize}) /\ lim = LimFanOut

FanOutSpec == FanOutInit /\ [][FanOutNext]_vars

\* Subscribing across tenants: one subscriber of either tenant asks for one of
\* the three (tenant, name) pairs, of which two share a composite key, while
\* one publisher publishes to them.
LimMismatch == [LimMain EXCEPT !.msgs = SubMsgs]

MismatchInit == InitCore /\ InitThrottle /\ InitBuffer({AvgMessSize * MaxBufferSize}) /\ lim = LimMismatch

MismatchSpec == MismatchInit /\ [][LeaveNext]_vars

\* Order of delivery: one DROP_OLDEST subscriber with an inbox of more than
\* one slot and a reliable transport; the replay and the fan-out of one
\* publisher, who publishes more than the inbox holds, send to it concurrently.
\* What is enqueued and what is written are recorded.
LimFifo ==
    [pairs |-> {<<Str("a"), Str("c")>>}, subTenants |-> {Str("a")},
     caps |-> {InboxCap + 1}, strategies |-> {"DROP_OLDEST"}, msgs |-> InboxCap + 2,
     ticks |-> {1}, subs |-> 1, pubs |-> 1, unsubAny |-> FALSE, logs |-> TRUE,
     joins |-> FALSE, queues |-> TRUE]

FifoInit == InitCore /\ InitThrottle /\ InitBuffer({AvgMessSize * MaxBufferSize}) /\ lim = LimFifo

FifoSpec == FifoInit /\ [][CatchUpNext]_vars

\* The subscribe handler of every connection is scheduled: once its wait on the
\* subscriber's context is over it calls Unsubscribe, unless the process is gone.
ReapFair ==
    \A s \in SubIds : WF_vars(\E pr \in Pairs : Unsubscribe(pr[1], pr[2], s))

ReapSpec == SubscriberInit /\ [][CoreNext]_vars /\ ReapFair

\* The delivery goroutine of every subscriber is scheduled: it takes the next
\* step of sendLoop when it has one.
LoopFair ==
    \A s \in SubIds :
        WF_vars(LoopReceive(s) \/ LoopWriteOk(s) \/ LoopWriteFail(s) \/ LoopExit(s))

\* One subscriber on one topic with one publisher; the transport may fail, the
\* client may leave and the server may shut down at any moment.
LimDrain ==
    [pairs |-> {<<Str("a"), Str("c")>>}, subTenants |-> {Str("a")},
     caps |-> {InboxCap}, strategies |-> {"DROP_OLDEST"}, msgs |-> SubMsgs,
     ticks |-> {1}, subs |-> 1, pubs |-> 1, unsubAny |-> FALSE, logs |-> FALSE,
     joins |-> FALSE, queues |-> FALSE]

DrainInit == InitCore /\ InitThrottle /\ InitBuffer({AvgMessSize * MaxBufferSize}) /\ lim = LimDrain

DrainSpec == DrainInit /\ [][CoreNext]_vars /\ LoopFair

\* Recalculation ticks while subscribers come and go: up to two subscribers on
\* one topic, any configured max_total_memory and any heap size at a tick. The
\* inputs of the last tick are recorded.
LimRecalc ==
    [pairs |-> {<<Str("a"), Str("c")>>}, subTenants |-> {Str("a")},
     caps |-> {InboxCap}, strategies |-> {"DROP_OLDEST"}, msgs |-> SubMsgs,
     ticks |-> {1}, subs |-> 2, pubs |-> 1, unsubAny |-> FALSE, logs |-> TRUE,
     joins |-> FALSE, queues |-> FALSE]

RecalcNext ==
    \/ \E s \in SubIds, subTenant \in Tenants, pr \in Pairs, b \in Caps,
          st \in DropStrategies : Subscribe(s, subTenant, pr[1], pr[2], b, st)
    \/ \E s \in SubIds : CatchUpSnapshot(s)
    \/ \E pr \in Pairs, s \in SubIds : Unsubscribe(pr[1], pr[2], s)
    \/ \E currentMomory \in MemorySamples : Recalculate(currentMomory)

RecalcInit == InitCore /\ InitThrottle /\ InitBuffer(MemorySamples) /\ lim = LimRecalc

RecalcSpec == RecalcInit /\ [][RecalcNext]_vars

\* A RecentMessageCache on its own, of any size from 1 to CacheSize, under Add
\* and Clear calls in any order; it sits in a topic, as NewTopic builds it.
LimCache == [LimMain EXCEPT !.pairs = {<<Str("a"), Str("c")>>}, !.msgs = MaxAdds, !.logs = TRUE]

CacheKey == makeTopicKey(Str("a"), Str("c"))

\* c.Add(msg), with the payloads numbered in the order of the calls
AddCall ==
    /\ Running
    /\ published < lim.msgs
    /\ LET msg == NewMessage(Str("c"), Str("a"), published + 1, clock)
       IN  /\ topics' = [topics EXCEPT ![CacheKey].recentCache = CacheAdd(@, msg)]
           /\ hist' = [hist EXCEPT ![CacheKey] = Append(@, msg)]
    /\ published' = published + 1
    /\ UNCHANGED <<subs, pubs, catchup, bufCount, shut, panicked, clock, lastErr, lim, sideVars>>

\* c.Clear()
ClearCall ==
    /\ Running
    /\ topics' = [topics EXCEPT ![CacheKey].recentCache = CacheClear(@)]
    /\ hist' = [hist EXCEPT ![CacheKey] = <<>>]
    /\ UNCHANGED <<subs, pubs, catchup, bufCount, shut, panicked, clock, published, lastErr,
                   lim, sideVars>>

CacheNext == AddCall \/ ClearCall

CacheInit ==
    /\ \E size \in 1..CacheSize : topics = (CacheKey :> NewTopic(Str("c"), Str("a"), size))
    /\ subs = [s \in SubIds |-> NoSubscriber]
    /\ pubs = [p \in PubIds |-> IdlePub]
    /\ catchup = [s \in SubIds |-> NoCatchUp]
    /\ bufCount = 0
    /\ shut = [once |-> FALSE, chanClosed |-> 0, returned |-> FALSE, calls |-> 0]
    /\ panicked = "none"
    /\ clock = 0
    /\ published = 0
    /\ lastErr = ""
    /\ hist = [k \in Keys |-> <<>>]
    /\ reg = IdleRegistry
    /\ InitThrottle
    /\ InitBuffer({AvgMessSize * MaxBufferSize})
    /\ lim = LimCache

CacheSpec == CacheInit /\ [][CacheNext]_vars

----------------------------------------------------------------------------
(* Properties of the delivery core *)

\* C1 (tenant isolation): no message is ever enqueued to a subscriber whose
\* TenantID differs from the message's tenant_id, whatever the tenant ids and
\* topic names are (also with ':' in them).
C1_TenantIsolation ==
    \A s \in SubIds : \A i \in 1..Len(subs[s].messageChan) :
        subs[s].messageChan[i].TenantID = subs[s].TenantID

\* C2 (no cross-topic leakage): every message enqueued to the inbox of a
\* subscriber registered on topic T has topic = T's name.
C2_NoCrossTopicLeak ==
    \A k \in DOMAIN topics : \A s \in topics[k].subscribers :
        \A i \in 1..Len(subs[s].messageChan) :
            subs[s].messageChan[i].Topic = topics[k].name

\* C3 (no send on a closed inbox): no SendMessages call, from a fan-out task or
\* from the catch-up task, ever sends on a messageChan that Close has closed.
C3_NoSendOnClosedInbox ==
    /\ \A p \in PubIds : \A s \in DOMAIN pubs[p].tasks : pubs[p].tasks[s] # "panic"
    /\ \A s \in SubIds : catchup[s].pc # "panic"

\* some goroutine is inside a SendMessages call on subscriber s
SendInFlight(s) ==
    \/ \E p \in PubIds : s \in DOMAIN pubs[p].tasks /\ pubs[p].tasks[s] # "done"
    \/ catchup[s].pc \in {"send", "bp", "retry", "panic"}

\* C4 (drop accounting): once a subscriber is closed (and no SendMessages call
\* or transport write is under way),
\* received = sent + dropped + the number of messages in the inbox at close.
C4_DropAccounting ==
    \A s \in SubIds :
        (subs[s].chanClosed > 0 /\ ~SendInFlight(s) /\ subs[s].loop # "writing") =>
            subs[s].messagesRecieved =
                subs[s].messagesSent + subs[s].droppedCount + subs[s].inboxAtClose

\* the subscribers held in all topics' maps
LiveSubscribers == UNION { { <<k, s>> : s \in topics[k].subscribers } : k \in DOMAIN topics }

\* C5 (subscriber-count ledger): after every completed Subscribe or Unsubscribe
\* call, successful or failed, the buffer manager's subscriber count equals the
\* number of subscribers held in all topics' maps.
C5_SubscriberLedger == bufCount = Cardinality(LiveSubscribers)

\* C6 (idempotent close): however often Close is called on a subscriber, the
\* cancellation, the done signal, the transport close and the inbox close each
\* happen exactly once, and no close of a closed channel panics.
C6_IdempotentClose ==
    /\ panicked # "close of closed channel"
    /\ \A s \in SubIds :
          LET n == IF subs[s].closeCalls > 0 THEN 1 ELSE 0
          IN  /\ subs[s].cancelled = n
              /\ subs[s].doneClosed = n
              /\ subs[s].connClosed = n
              /\ subs[s].chanClosed = n

\* Close has been called (at least) twice on a subscriber
C6_Witness ==
    \E s \in SubIds : subs[s].closeCalls >= 2 /\ subs[s].chanClosed = 1

\* the last k elements of a sequence
LastOf(seq, k) == SubSeq(seq, Len(seq) - k + 1, Len(seq))

\* what the replay of subscriber s may enqueue: of the messages published to its
\* topic before the replay read the cache, the last min(limit, count), oldest first
CatchUpExpected(s) ==
    LET h == SubSeq(hist[TopicKeyOf(s)], 1, catchup[s].histAt)
        count == Min(CacheSize, Len(h))
    IN  LastOf(h, Min(CatchUpLimit, count))

\* C8 (catch-up bounded): the replay enqueues at most min(limit, cache count)
\* messages; they are the most recent cached messages, oldest first (a prefix
\* of them when the replay ends early, all of them when it completes).
C8_CatchUpBounded ==
    \A s \in SubIds :
        catchup[s].pc \notin {"none", "spawned"} =>
            LET log == catchup[s].log
                expected == CatchUpExpected(s)
            IN  /\ Len(log) <= Len(expected)
                /\ log = SubSeq(expected, 1, Len(log))
                /\ catchup[s].pc = "done" => log = expected

\* a completed replay of exactly the limit, from a cache that had wrapped around
C8_Witness ==
    \E s \in SubIds :
        /\ catchup[s].pc = "done"
        /\ Len(catchup[s].log) = CatchUpLimit
        /\ catchup[s].histAt > CacheSize

\* C9 (publish completes): a Publish call under way can always take its next
\* step (snapshot, a fan-out step, or the return after the wait), whatever the
\* state of its subscribers; with the finite fan-out this is termination.
C9_PublishCompletes ==
    \A p \in PubIds :
        pubs[p].pc # "idle" =>
            ENABLED (PublishSnapshot(p) \/ (\E s \in SubIds : FanOutStep(p, s)) \/ PublishReturn(p))

\* C10 (no delivery after shutdown): once ShutDown has returned, no step
\* enqueues a message to any inbox or writes one to any transport.
C10_NoDeliveryAfterShutDown ==
    [][shut.returned =>
         \A s \in SubIds :
             /\ Len(subs'[s].messageChan) <= Len(subs[s].messageChan)
             /\ subs'[s].messagesSent = subs[s].messagesSent]_vars

\* C11 (double shutdown is a no-op): shutDownChan is closed at most once (the
\* monitor loop is signalled once, no close of a closed channel), and a ShutDown
\* call made after the first one changes nothing: no topic, subscriber, count
\* or channel.
C11_DoubleShutDownNoOp ==
    [][/\ shut'.chanClosed <= 1
       /\ panicked' # "close of closed channel"
       /\ (shut.once /\ shut'.calls # shut.calls) =>
             /\ UNCHANGED <<topics, subs, pubs, catchup, bufCount, panicked>>
             /\ shut' = [shut EXCEPT !.calls = shut'.calls]]_vars

\* ShutDown was called twice with a subscriber registered (and closed by the first call)
C11_Witness ==
    /\ shut.calls >= 2
    /\ shut.chanClosed = 1
    /\ \E s \in AllSubscribers(topics) : subs[s].chanClosed = 1

\* C12 (unsubscribe of an absent id): an Unsubscribe call for an id that is not
\* in the topic's map returns the not-found error, leaves every topic's
\* subscriber map unchanged, closes no subscriber and leaves the buffer
\* manager's subscriber count unchanged.
C12_UnsubscribeAbsent ==
    [][\A pr \in Pairs, id \in SubIds :
          (/\ Unsubscribe(pr[1], pr[2], id)
           /\ makeTopicKey(pr[1], pr[2]) \in DOMAIN topics
           /\ id \notin topics[makeTopicKey(pr[1], pr[2])].subscribers)
          => /\ lastErr' = "subscriber not found"
             /\ UNCHANGED <<topics, subs, bufCount>>]_vars

\* an Unsubscribe of an already unsubscribed id has returned not-found
C12_Witness ==
    /\ lastErr = "subscriber not found"
    /\ \E s \in SubIds : subs[s].state = "removed"

\* seq is a prefix of full
IsPrefix(seq, full) == Len(seq) <= Len(full) /\ seq = SubSeq(full, 1, Len(seq))

\* C13 (exactly-once, in-order delivery to a live subscriber): when a subscriber
\* joined a topic before anything was published to it and m1..mk are then
\* published one after the other, k not above the inbox capacity, over a
\* transport that never fails, what the subscriber has been sent is always a
\* prefix of m1..mk: each message once, in order, no duplicate from the replay.
C13_ExactlyOnceInOrder ==
    \A s \in SubIds :
        (/\ subs[s].state = "subscribed"
         /\ lim.joins
         /\ subs[s].subAt = 0
         /\ Len(hist[TopicKeyOf(s)]) <= subs[s].cap)
        => IsPrefix(subs[s].written, hist[TopicKeyOf(s)])

\* the SendMessages calls on s that found the inbox full (with a transport that
\* never completes a write: every call received either was enqueued, and is
\* then in the inbox or in the loop's hands, or found the inbox full)
FoundFull(s) ==
    subs[s].messagesRecieved - Len(subs[s].messageChan)
        - (IF subs[s].loop = "writing" THEN 1 ELSE 0)

\* C14 (the circuit breaker trips): a CIRCUIT_BREAKER subscriber behind a
\* stalled transport is closed once more SendMessages calls than the breaker's
\* limit have found its inbox full (101 calls for the limit 100; the formula
\* allows one call more, for a count that is compared before it is raised).
C14_BreakerTrips ==
    \A s \in SubIds :
        (/\ subs[s].state = "subscribed"
         /\ subs[s].dropStrategy = "CIRCUIT_BREAKER"
         /\ ~SendInFlight(s)
         /\ FoundFull(s) > BreakerLimit + 1)
        => subs[s].chanClosed > 0

\* Subscriber s has been sent, one call after the other, the first n messages
\* published to its topic and nothing else: its replay read an empty cache, the
\* publishes are sequential, and no SendMessages call is under way.
SentSequentially(s) ==
    /\ lim.logs
    /\ subs[s].state = "subscribed"
    /\ subs[s].dropStrategy = "DROP_OLDEST"
    /\ catchup[s].pc = "done" /\ catchup[s].histAt = 0
    /\ ~SendInFlight(s)

\* the first n messages published to the topic of s
SentTo(s) == SubSeq(hist[TopicKeyOf(s)], 1, subs[s].messagesRecieved)

\* the number of messages the delivery loop of s has taken and not written yet
InHand(s) == IF subs[s].loop = "writing" THEN 1 ELSE 0

C16_BufferSizeInRange ==
    /\ GetBufferSize >= MinBifferSize
    /\ GetBufferSize <= MaxBufferSize
    /\ (\A s \in SubIds : subs[s].state = "none") => GetBufferSize = MaxBufferSize
    /\ \A s \in SubIds : Len(subs[s].messageChan) <= subs[s].cap

\* a recalculation for two subscribers whose quotient overflowed the int32 and
\* was clamped, with a subscriber's inbox full
C16_Witness ==
    /\ bufCount = 2
    /\ buf.maxTotalMemory = AvgMessSize * 4600
    /\ GetBufferSize = MinBifferSize
    /\ \E s \in SubIds : subs[s].cap > 0 /\ Len(subs[s].messageChan) = subs[s].cap

\* C18 (message id uniqueness): any two messages constructed by NewMessage in
\* one run have different ids, also when concurrent publishers construct them
\* within one clock tick.
C18_MessageIdsUnique ==
    \A k \in Keys : \A i, j \in 1..Len(hist[k]) :
        i # j => hist[k][i].Id # hist[k][j].Id

\* what subscriber s has been handed so far, in order: the messages written to
\* its transport, the one being written, the ones queued in its inbox
Delivered(s) ==
    subs[s].written \o (IF subs[s].loop = "writing" THEN <<subs[s].cur>> ELSE <<>>)
                   \o subs[s].messageChan

\* C19 (catch-up precedes live traffic): in what a subscriber is handed, every
\* catch-up message (one published before its Subscribe, which only the replay
\* can bring) is ahead of every live message (one published after its
\* Subscribe). Messages carry their publication number as Data.
C19_CatchUpPrecedesLive ==
    \A s \in SubIds :
        (lim.joins /\ subs[s].state = "subscribed") =>
            \A i, j \in 1..Len(Delivered(s)) :
                i < j => ~(/\ Delivered(s)[i].Data > subs[s].subAt
                           /\ Delivered(s)[j].Data <= subs[s].subAt)

\* C25 (failed subscribers are reaped): a subscriber that was closed (by a
\* failed transport write or ping of its delivery loop, or otherwise) while it
\* is in its topic's map is eventually removed from the map by the subscribe
\* handler's Unsubscribe, which also decrements the subscriber count.
C25_FailedSubscribersReaped ==
    \A s \in SubIds :
        (subs[s].closeOnce /\ s \in AllSubscribers(topics))
            ~> (s \notin AllSubscribers(topics))

\* C26 (the delivery actor terminates after close): once Close has run on a
\* subscriber, its delivery loop writes no further message to the transport
\* and eventually exits (at the latest with the process), whether the loop had
\* not yet run, was idle, was in a write, or messages were still queued.
C26_LoopTerminatesAfterClose ==
    /\ [][\A s \in SubIds : subs[s].closeOnce =>
              /\ subs'[s].messagesSent = subs[s].messagesSent
              /\ subs'[s].written = subs[s].written]_vars
    /\ \A s \in SubIds :
          subs[s].closeOnce ~> (subs[s].loop = "exited" \/ ~Running)

\* a loop that has exited after a Close that found messages queued, which are
\* still in the inbox, with the process alive
C26_Witness ==
    \E s \in SubIds :
        /\ Running
        /\ subs[s].closeOnce
        /\ subs[s].loop = "exited"
        /\ subs[s].inboxAtClose > 0
        /\ subs[s].messageChan # <<>>

\* clamp(max(0, max_total_memory - alloc) / max(1, subscriber_count) / 1024, 100, 1000)
RecalculationFormula(max_total_memory, alloc, subscriber_count) ==
    LET available == IF max_total_memory - alloc < 0 THEN 0 ELSE max_total_memory - alloc
        count == IF subscriber_count < 1 THEN 1 ELSE subscriber_count
    IN  ClampBufferSize((available \div count) \div AvgMessSize)

\* C27 (buffer recalculation formula): after every recalculation tick the
\* stored buffer size is
\* clamp(max(0, max_total_memory - alloc) / max(1, subscriber_count) / 1024, 100, 1000)
\* for the heap size and the subscriber count of that tick, a count of 0 included.
C27_RecalculationFormula ==
    buf.ticked =>
        GetBufferSize = RecalculationFormula(buf.maxTotalMemory, buf.alloc, buf.count)

\* a is b with some elements left out
RECURSIVE IsSubsequence(_, _)
IsSubsequence(a, b) ==
    IF a = <<>> THEN TRUE
    ELSE IF b = <<>> THEN FALSE
    ELSE IF Head(a) = Head(b) THEN IsSubsequence(Tail(a), Tail(b))
    ELSE IsSubsequence(a, Tail(b))

\* what the delivery loop of s has taken from the inbox, in order
Taken(s) ==
    subs[s].written \o (IF subs[s].loop = "writing" THEN <<subs[s].cur>> ELSE <<>>)

\* C24 (per-subscriber FIFO): what the delivery loop writes to the transport
\* is a subsequence of what was enqueued to the inbox, in the same order, also
\* when concurrent DROP_OLDEST senders take messages out of the same inbox.
C24_PerSubscriberFifo ==
    \A s \in SubIds : lim.queues => IsSubsequence(Taken(s), subs[s].queued)

\* two messages were written, and one enqueued between them was dropped
C24_Witness ==
    \E s \in SubIds :
        /\ lim.queues
        /\ Len(subs[s].written) >= 2
        /\ subs[s].droppedCount > 0
        /\ Len(subs[s].queued) >= 3
        /\ subs[s].written[1] = subs[s].queued[1]
        /\ subs[s].written[2] = subs[s].queued[3]

\* C23 (tenant-mismatch rejection): every subscriber in a topic's map has the
\* topic's tenant id, and a subscriber whose Subscribe returned the
\* tenant-mismatch error is in no map, has no delivery loop and no replay.
C23_TenantMismatchRejected ==
    /\ \A k \in DOMAIN topics : \A s \in topics[k].subscribers :
          subs[s].TenantID = topics[k].tenantID
    /\ \A s \in SubIds :
          subs[s].state = "rejected" =>
              /\ lastErr = "tenant mismatch"
              /\ s \notin AllSubscribers(topics)
              /\ subs[s].loop = "none"
              /\ catchup[s].pc = "none"

\* Topic.Subscribe has rejected a subscriber that TopicManager.Subscribe let
\* through (the buffer manager has counted it), on a topic of another tenant
C23_Witness ==
    \E s \in SubIds :
        /\ subs[s].state = "rejected"
        /\ bufCount > 0
        /\ \E k \in DOMAIN topics : topics[k].tenantID = Str("a:b")

\* C22 (remove, then close): a subscriber that Unsubscribe has closed is in no
\* topic's map any more, and a Publish that takes its snapshot after the
\* Unsubscribe starts no fan-out task for it.
C22_RemoveThenClose ==
    [][\A s \in SubIds :
          subs'[s].state = "removed" =>
              /\ s \notin AllSubscribers(topics')
              /\ \A p \in PubIds :
                    (subs[s].state = "removed" /\ pubs[p].pc = "added" /\ pubs'[p].pc = "fanout")
                    => s \notin DOMAIN pubs'[p].tasks]_vars

\* a message constructed after a subscriber left its topic is being fanned out
\* to the subscriber that stayed
C22_Witness ==
    \E s \in SubIds, p \in PubIds :
        /\ subs[s].state = "removed"
        /\ pubs[p].pc = "fanout"
        /\ pubs[p].key = TopicKeyOf(s)
        /\ pubs[p].msg.Data > subs[s].leftAt
        /\ s \notin DOMAIN pubs[p].tasks

----------------------------------------------------------------------------
(* The registry lock: GetMetrics, getOrCreateTopic, ShutDown and the monitor   *)
(* loop, one lock operation per step.                                          *)

lockFrame == <<coreVars, lim, thr, now, timers, callers, monitor, buf>>

\* a /metrics request calls GetMetrics
MetricsCall ==
    /\ reg.metrics = "idle"
    /\ reg' = [reg EXCEPT !.metrics = "rlock"]
    /\ UNCHANGED lockFrame

\* GetMetrics: tm.mu.RLock(); the loop over topic.GetMetrics();
\* GetTotalSubscriberCount() and GetSlowSubscriberCount(), each with its own
\* RLock / RUnlock; throttler.GetMetrics(); the deferred RUnlock
MetricsStep ==
    /\ reg.metrics # "idle"
    /\ LET after == CASE reg.metrics = "rlock" /\ RLockReady ->
                            [reg EXCEPT !.readers = @ + 1, !.metrics = "topics"]
                      [] reg.metrics = "topics" ->
                            [reg EXCEPT !.metrics = "total_rlock"]
                      [] reg.metrics = "total_rlock" /\ RLockReady ->
                            [reg EXCEPT !.readers = @ + 1, !.metrics = "total"]
                      [] reg.metrics = "total" ->
                            [reg EXCEPT !.readers = @ - 1, !.metrics = "slow_rlock"]
                      [] reg.metrics = "slow_rlock" /\ RLockReady ->
                            [reg EXCEPT !.readers = @ + 1, !.metrics = "slow"]
                      [] reg.metrics = "slow" ->
                            [reg EXCEPT !.readers = @ - 1, !.metrics = "ret"]
                      [] reg.metrics = "ret" ->
                            [reg EXCEPT !.readers = @ - 1, !.metrics = "idle"]
                   [] OTHER -> reg
       IN  after # reg /\ reg' = after
    /\ UNCHANGED lockFrame

\* a Publish or Subscribe calls getOrCreateTopic
LookupCall ==
    /\ reg.lookup = "idle"
    /\ reg' = [reg EXCEPT !.lookup = "rlock"]
    /\ UNCHANGED lockFrame

\* getOrCreateTopic: the probe under the read lock; when the topic is missing,
\* tm.mu.Lock(), the second probe and the insert, the deferred Unlock
LookupStep ==
    /\ reg.lookup # "idle"
    /\ LET after == CASE reg.lookup = "rlock" /\ RLockReady ->
                            [reg EXCEPT !.readers = @ + 1, !.lookup = "probe"]
                      [] reg.lookup = "probe" ->
                            [reg EXCEPT !.readers = @ - 1,
                                        !.lookup = IF reg.created THEN "idle" ELSE "lock"]
                      [] reg.lookup = "lock" /\ LockAnnounceReady ->
                            [reg EXCEPT !.w = "lookup", !.lookup = "wait"]
                      [] reg.lookup = "wait" /\ LockReady("lookup") ->
                            [reg EXCEPT !.held = TRUE, !.lookup = "create"]
                      [] reg.lookup = "create" ->
                            [reg EXCEPT !.created = TRUE, !.w = "none", !.held = FALSE,
                                        !.lookup = "idle"]
                   [] OTHER -> reg
       IN  after # reg /\ reg' = after
    /\ UNCHANGED lockFrame

\* main calls ShutDown (the body runs once)
CloserCall ==
    /\ reg.closer = "idle"
    /\ reg' = [reg EXCEPT !.closer = "lock"]
    /\ UNCHANGED lockFrame

\* ShutDown: tm.mu.Lock(), closing every subscriber, tm.mu.Unlock()
CloserStep ==
    /\ reg.closer \notin {"idle", "done"}
    /\ LET after == CASE reg.closer = "lock" /\ LockAnnounceReady ->
                            [reg EXCEPT !.w = "closer", !.closer = "wait"]
                      [] reg.closer = "wait" /\ LockReady("closer") ->
                            [reg EXCEPT !.held = TRUE, !.closer = "closing"]
                      [] reg.closer = "closing" ->
                            [reg EXCEPT !.w = "none", !.held = FALSE, !.closer = "done"]
                   [] OTHER -> reg
       IN  after # reg /\ reg' = after
    /\ UNCHANGED lockFrame

\* the monitor loop's ticker fires
CounterCall ==
    /\ reg.counter = "idle"
    /\ reg' = [reg EXCEPT !.counter = "total_rlock"]
    /\ UNCHANGED lockFrame

\* monitoLoop: GetTotalSubscriberCount(), then GetSlowSubscriberCount()
CounterStep ==
    /\ reg.counter # "idle"
    /\ LET after == CASE reg.counter = "total_rlock" /\ RLockReady ->
                            [reg EXCEPT !.readers = @ + 1, !.counter = "total"]
                      [] reg.counter = "total" ->
                            [reg EXCEPT !.readers = @ - 1, !.counter = "slow_rlock"]
                      [] reg.counter = "slow_rlock" /\ RLockReady ->
                            [reg EXCEPT !.readers = @ + 1, !.counter = "slow"]
                      [] reg.counter = "slow" ->
                            [reg EXCEPT !.readers = @ - 1, !.counter = "idle"]
                   [] OTHER -> reg
       IN  after # reg /\ reg' = after
    /\ UNCHANGED lockFrame

\* a Publish or a Subscribe for the key calls getOrCreateTopic
GetOrCreateCall(c) ==
    /\ reg.goc[c].pc = "idle"
    /\ reg' = [reg EXCEPT !.goc[c].pc = "rlock"]
    /\ UNCHANGED lockFrame

\* A second probe that never finds the topic.
ReProbeMiss(r) == FALSE

\* topic, exists = tm.topics[topicKey] under the write lock
ReProbe(r) == r.created

\* getOrCreateTopic of caller c, one lock operation per step: RLock, probe and
\* RUnlock, return on a hit; Lock; the second probe, NewTopic and the insert on
\* a miss, the deferred Unlock
GetOrCreateStep(c) ==
    /\ reg.goc[c].pc # "idle"
    /\ LET pc == reg.goc[c].pc
           after == CASE pc = "rlock" /\ RLockReady ->
                            [reg EXCEPT !.readers = @ + 1, !.goc[c].pc = "probe"]
                      [] pc = "probe" ->
                            IF reg.created
                            THEN [reg EXCEPT !.readers = @ - 1,
                                             !.goc[c] = [pc |-> "idle", topic |-> reg.made]]
                            ELSE [reg EXCEPT !.readers = @ - 1, !.goc[c].pc = "lock"]
                      [] pc = "lock" /\ LockAnnounceReady ->
                            [reg EXCEPT !.w = c, !.goc[c].pc = "wait"]
                      [] pc = "wait" /\ LockReady(c) ->
                            [reg EXCEPT !.held = TRUE, !.goc[c].pc = "locked"]
                      [] pc = "locked" ->
                            IF ReProbe(reg)
                            THEN [reg EXCEPT !.w = "none", !.held = FALSE,
                                             !.goc[c] = [pc |-> "idle", topic |-> reg.made]]
                            ELSE [reg EXCEPT !.w = "none", !.held = FALSE,
                                             !.created = TRUE, !.made = @ + 1,
                                             !.goc[c] = [pc |-> "idle", topic |-> reg.made + 1]]
                   [] OTHER -> reg
       IN  after # reg /\ reg' = after
    /\ UNCHANGED lockFrame

LockNext ==
    \/ MetricsCall
    \/ MetricsStep
    \/ LookupCall
    \/ LookupStep
    \/ CloserCall
    \/ CloserStep
    \/ CounterCall
    \/ CounterStep

LockInit == InitCore /\ InitThrottle /\ InitBuffer({AvgMessSize * MaxBufferSize}) /\ lim = LimMain

LockSpec == LockInit /\ [][LockNext]_vars

\* Concurrent getOrCreateTopic calls for one key, from Publish and Subscribe
\* calls that come again and again, beside the readers of the monitor loop and
\* the writer of ShutDown.
RegistryNext ==
    \/ \E c \in GetOrCreateCallers : GetOrCreateCall(c)
    \/ \E c \in GetOrCreateCallers : GetOrCreateStep(c)
    \/ CloserCall
    \/ CloserStep
    \/ CounterCall
    \/ CounterStep

RegistryInit == InitCore /\ InitThrottle /\ InitBuffer({AvgMessSize * MaxBufferSize}) /\ lim = LimMain

RegistrySpec == RegistryInit /\ [][RegistryNext]_vars

----------------------------------------------------------------------------
(* Topic.subMutex: reg.subMutex[key] holds the Publish calls that hold the   *)
(* read lock and the subscriber whose Unsubscribe call holds the write lock. *)

\* the getOrCreateTopic call of the publish handler that runs Publish call p
PubCaller(p) == IF p = 1 THEN "publish" ELSE "publish2"

\* the caller is between RLock and RUnlock, or between Lock and Unlock, of tm.mu
HoldsRegistry(c) == reg.goc[c].pc \in {"probe", "locked"}

SubMutexFree(key) == reg.subMutex[key].readers = {} /\ reg.subMutex[key].writer = 0

holdFrame == <<topics, subs, catchup, bufCount, shut, panicked, clock, published, lastErr,
               hist, lim, thr, now, timers, callers, monitor, buf>>

\* getSubscribersSnapshot: t.subMutex.RLock()
SnapshotRLock(p) ==
    /\ Running
    /\ pubs[p].pc = "added"
    /\ p \notin reg.subMutex[pubs[p].key].readers
    /\ reg.subMutex[pubs[p].key].writer = 0
    /\ reg' = [reg EXCEPT !.subMutex[pubs[p].key].readers = @ \cup {p}]
    /\ UNCHANGED lockFrame

\* A snapshot whose read lock is released when Publish returns, not when
\* getSubscribersSnapshot returns.
SnapshotCopyHolding(p) ==
    /\ Running
    /\ pubs[p].pc = "added"
    /\ p \in reg.subMutex[pubs[p].key].readers
    /\ LET snapshot == topics[pubs[p].key].subscribers
       IN  IF snapshot = {}
           THEN /\ pubs' = [pubs EXCEPT ![p] = IdlePub]
                /\ reg' = [reg EXCEPT !.subMutex[pubs[p].key].readers = @ \ {p}]
           ELSE /\ pubs' = [pubs EXCEPT ![p].pc = "fanout",
                                        ![p].tasks = [s \in snapshot |-> "send"]]
                /\ reg' = reg
    /\ UNCHANGED holdFrame

\* getSubscribersSnapshot: the copy and the deferred RUnlock; then Publish
\* returns nil for an empty snapshot, else starts one goroutine each
SnapshotCopy(p) ==
    /\ Running
    /\ pubs[p].pc = "added"
    /\ p \in reg.subMutex[pubs[p].key].readers
    /\ LET snapshot == topics[pubs[p].key].subscribers
       IN  IF snapshot = {}
           THEN pubs' = [pubs EXCEPT ![p] = IdlePub]
           ELSE pubs' = [pubs EXCEPT ![p].pc = "fanout",
                                     ![p].tasks = [s \in snapshot |-> "send"]]
    /\ reg' = [reg EXCEPT !.subMutex[pubs[p].key].readers = @ \ {p}]
    /\ UNCHANGED holdFrame

\* TopicManager.Unsubscribe found the topic; Topic.Unsubscribe: t.subMutex.Lock()
UnsubscribeLock(s) ==
    /\ Running
    /\ subs[s].state = "subscribed"
    /\ TopicKeyOf(s) \in DOMAIN topics
    /\ SubMutexFree(TopicKeyOf(s))
    /\ reg' = [reg EXCEPT !.subMutex[TopicKeyOf(s)].writer = s]
    /\ UNCHANGED lockFrame

\* Topic.Unsubscribe under the write lock: delete, sub.Close(), the deferred
\* Unlock; then OnSubscriberRemoval
UnsubscribeLocked(s) ==
    /\ Running
    /\ subs[s].state = "subscribed"
    /\ reg.subMutex[TopicKeyOf(s)].writer = s
    /\ topics' = [topics EXCEPT ![TopicKeyOf(s)].subscribers = @ \ {s}]
    /\ subs' = [subs EXCEPT ![s] = [Close(@) EXCEPT !.state = "removed"]]
    /\ bufCount' = bufCount - 1
    /\ lastErr' = ""
    /\ reg' = [reg EXCEPT !.subMutex[TopicKeyOf(s)].writer = 0]
    /\ UNCHANGED <<pubs, catchup, shut, panicked, clock, published, hist, lim,
                   thr, now, timers, callers, monitor, buf>>

\* The delivery core with every lock operation of Publish, Unsubscribe and
\* ShutDown as a step of its own: a publish handler runs getOrCreateTopic and
\* then Topic.Publish; Subscribe inserts under the write lock; ShutDown closes
\* the subscribers between tm.mu.Lock() and tm.mu.Unlock(), taking each topic's
\* read lock for the snapshot.
HoldNext ==
    \/ \E p \in PubIds : p <= lim.pubs /\ pubs[p].pc = "idle" /\ GetOrCreateCall(PubCaller(p))
    \/ \E p \in PubIds : GetOrCreateStep(PubCaller(p))
    \/ \E p \in PubIds, pr \in Pairs, tick \in {0, 1} :
          /\ reg.goc[PubCaller(p)].pc = "idle"
          /\ reg.goc[PubCaller(p)].topic # 0
          /\ PublishBegin(p, pr[1], pr[2], tick)
    \/ \E p \in PubIds : SnapshotRLock(p)
    \/ \E p \in PubIds : SnapshotCopy(p)
    \/ \E p \in PubIds, s \in SubIds : FanOutStep(p, s)
    \/ \E p \in PubIds : PublishReturn(p)
    \/ \E s \in SubIds, subTenant \in Tenants, pr \in Pairs, b \in Caps, st \in DropStrategies :
          /\ SubMutexFree(makeTopicKey(pr[1], pr[2]))
          /\ Subscribe(s, subTenant, pr[1], pr[2], b, st)
    \/ \E s \in SubIds : CatchUpSnapshot(s)
    \/ \E s \in SubIds : CatchUpStep(s)
    \/ \E s \in SubIds : LoopReceive(s)
    \/ \E s \in SubIds : LoopWriteOk(s)
    \/ \E s \in SubIds : LoopWriteFail(s)
    \/ \E s \in SubIds : LoopPingFail(s)
    \/ \E s \in SubIds : LoopExit(s)
    \/ \E s \in SubIds : UnsubscribeLock(s)
    \/ \E s \in SubIds : UnsubscribeLocked(s)
    \/ CloserCall
    \/ (reg.closer = "closing" => shut.once) /\ CloserStep
    \/ /\ reg.closer = "closing"
       /\ ~shut.once
       /\ \A k \in Keys : reg.subMutex[k].writer = 0
       /\ ShutDown

LimHold ==
    [pairs |-> {<<Str("a"), Str("c")>>}, subTenants |-> {Str("a")},
     caps |-> {InboxCap}, strategies |-> {"DROP_OLDEST"}, msgs |-> SubMsgs,
     ticks |-> {1}, subs |-> 1, pubs |-> 1, unsubAny |-> FALSE, logs |-> FALSE, joins |-> FALSE, queues |-> FALSE]

HoldInit == InitCore /\ InitThrottle /\ InitBuffer({AvgMessSize * MaxBufferSize}) /\ lim = LimHold

HoldSpec == HoldInit /\ [][HoldNext]_vars

\* the publish handler of Publish call p holds the registry lock or the
\* subscriber-map lock of some topic
PublisherHoldsLock(p) ==
    \/ HoldsRegistry(PubCaller(p))
    \/ \E k \in Keys : p \in reg.subMutex[k].readers

\* the step sends to no inbox and writes nothing to a transport
NoDelivery ==
    \A s \in SubIds :
        /\ subs'[s].messagesRecieved = subs[s].messagesRecieved
        /\ subs'[s].messageChan = subs[s].messageChan
        /\ subs'[s].messagesSent = subs[s].messagesSent
        /\ subs'[s].loop = subs[s].loop

\* C30 (no lock across delivery): an inbox send of a fan-out goroutine happens
\* only while the Publish call that waits for it holds neither the registry
\* lock nor a subscriber-map lock; the steps taken under a write lock
\* (Unsubscribe's delete and Close, ShutDown's Close calls) send to no inbox and
\* write to no transport; and a Publish call holds the topic's read lock only
\* between the cache append and the copy of the snapshot.
C30_NoLockAcrossDelivery ==
    [][/\ \A p \in PubIds, s \in SubIds : FanOutStep(p, s) => ~PublisherHoldsLock(p)
       /\ \A s \in SubIds : UnsubscribeLocked(s) => NoDelivery
       /\ (reg.closer = "closing" /\ ShutDown) => NoDelivery
       /\ \A p \in PubIds, k \in Keys :
             p \in reg.subMutex'[k].readers =>
                 (pubs'[p].pc = "added" /\ pubs'[p].key = k /\ pubs'[p].tasks = <<>>)]_vars

\* a fan-out goroutine is inside handleBackPressure, after a Publish call that
\* took and released both locks, while ShutDown holds the registry lock and
\* the subscriber's Unsubscribe call holds the topic's write lock
C30_Witness ==
    \E p \in PubIds, s \in SubIds :
        /\ pubs[p].pc = "fanout" /\ s \in DOMAIN pubs[p].tasks /\ pubs[p].tasks[s] = "bp"
        /\ reg.goc[PubCaller(p)].topic # 0
        /\ reg.subMutex[pubs[p].key].writer = s
        /\ reg.closer = "closing"

----------------------------------------------------------------------------
(* The accesses to tm.topics and to t.subscribers, with the lock each one is *)
(* made under. reg.all is the position of a GetAllTopics call; reg.printed   *)
(* holds the subscribers whose Topic.Subscribe call has returned.            *)

\* a caller of the package calls GetAllTopics
AllTopicsCall ==
    /\ reg.all = "idle"
    /\ reg' = [reg EXCEPT !.all = "reading"]
    /\ UNCHANGED lockFrame

\* GetAllTopics: len(tm.topics) and the range over tm.topics are done; return
AllTopicsReturn ==
    /\ reg.all = "reading"
    /\ reg' = [reg EXCEPT !.all = "idle"]
    /\ UNCHANGED lockFrame

\* Topic.Subscribe is past the Unlock of line 93 and has not yet returned:
\* len(t.subscribers) of the Printf is still to be read
AtSizeRead(s) == subs[s].state = "subscribed" /\ s \notin reg.printed

\* Topic.Subscribe: the Printf with len(t.subscribers); return nil
SubscribePrint(s) ==
    /\ Running
    /\ AtSizeRead(s)
    /\ reg' = [reg EXCEPT !.printed = @ \cup {s}]
    /\ UNCHANGED lockFrame

\* Subscribe and Unsubscribe calls of two connections on one topic, the
\* getOrCreateTopic calls that insert into the registry, and GetAllTopics calls.
\* A connection's handler calls Unsubscribe after its Subscribe call returned.
MapNext ==
    \/ \E c \in GetOrCreateCallers : GetOrCreateCall(c)
    \/ \E c \in GetOrCreateCallers : GetOrCreateStep(c)
    \/ AllTopicsCall
    \/ AllTopicsReturn
    \/ \E s \in SubIds, subTenant \in Tenants, pr \in Pairs, b \in Caps, st \in DropStrategies :
          /\ SubMutexFree(makeTopicKey(pr[1], pr[2]))
          /\ Subscribe(s, subTenant, pr[1], pr[2], b, st)
    \/ \E s \in SubIds : SubscribePrint(s)
    \/ \E s \in SubIds : s \in reg.printed /\ UnsubscribeLock(s)
    \/ \E s \in SubIds : UnsubscribeLocked(s)

LimMap ==
    [pairs |-> {<<Str("a"), Str("c")>>}, subTenants |-> {Str("a")},
     caps |-> {InboxCap}, strategies |-> {"DROP_OLDEST"}, msgs |-> SubMsgs,
     ticks |-> {1}, subs |-> 2, pubs |-> 1, unsubAny |-> FALSE, logs |-> FALSE, joins |-> FALSE, queues |-> FALSE]

MapInit == InitCore /\ InitThrottle /\ InitBuffer({AvgMessSize * MaxBufferSize}) /\ lim = LimMap

MapSpec == MapInit /\ [][MapNext]_vars

\* the getOrCreateTopic calls inside tm.mu.Lock(), about to insert into tm.topics
RegistryWriters == { c \in GetOrCreateCallers : reg.goc[c].pc = "locked" }

\* the calls that read tm.topics now, and whether they hold tm.mu
RegistryReads ==
    { [task |-> c, locked |-> TRUE] : c \in { d \in GetOrCreateCallers : reg.goc[d].pc = "probe" } }
        \cup (IF reg.all = "reading" THEN { [task |-> "all", locked |-> FALSE] } ELSE {})

\* the Unsubscribe calls inside t.subMutex.Lock(), about to delete from t.subscribers
SubscriberMapWriters(key) == { s \in SubIds : reg.subMutex[key].writer = s }

\* the calls that read t.subscribers now, and whether they hold t.subMutex
SubscriberMapReads(key) ==
    { [task |-> <<"publish", p>>, locked |-> TRUE] : p \in reg.subMutex[key].readers }
        \cup { [task |-> <<"subscribe", s>>, locked |-> FALSE] :
                  s \in { t \in SubIds : AtSizeRead(t) /\ TopicKeyOf(t) = key } }

\* C31 (lock discipline on the maps): every read of tm.topics and of a topic's
\* subscribers map is made with the map's lock held, and no read is under way
\* while a write of the same map is (GetAllTopics and the size read at the end
\* of Topic.Subscribe included).
C31_MapLockDiscipline ==
    /\ \A r \in RegistryReads : r.locked /\ (RegistryWriters = {} \/ r.task \in RegistryWriters)
    /\ \A key \in Keys : \A r \in SubscriberMapReads(key) :
          r.locked /\ SubscriberMapWriters(key) = {}

\* respondSuccess(w, msg.Id): the message_id of the response to Publish call p
Response(p) == pubs[p].msg.Id

\* Publish call p returns with this step
PublishReturns(p) ==
    \/ PublishReturn(p)
    \/ PublishSnapshot(p) /\ pubs'[p].pc = "idle"

\* subscriber s joined the topic before call p appended its message and is
\* still in the map
MemberThroughout(p, s) ==
    /\ s \in topics[pubs[p].key].subscribers
    /\ \E i \in 1..Len(hist[pubs[p].key]) :
          hist[pubs[p].key][i] = pubs[p].msg /\ subs[s].subAt < i

\* C32 (fan-out completeness): a Publish call takes its snapshot with its
\* message already in the cache; when it returns, every subscriber that was in
\* the map from before the call until its return has had its one SendMessages
\* call finished; a fan-out goroutine makes one attempt (one increment of
\* received, never back to the start); and what it enqueues carries the id of
\* the response.
C32_FanOutComplete ==
    [][\A p \in PubIds :
          /\ PublishSnapshot(p) =>
                \E i \in 1..Len(hist[pubs[p].key]) : hist[pubs[p].key][i] = pubs[p].msg
          /\ PublishReturns(p) =>
                \A s \in SubIds : MemberThroughout(p, s) =>
                    (s \in DOMAIN pubs[p].tasks /\ pubs[p].tasks[s] = "done")
          /\ \A s \in SubIds : FanOutStep(p, s) =>
                /\ subs'[s].messagesRecieved =
                      subs[s].messagesRecieved + (IF pubs[p].tasks[s] = "send" THEN 1 ELSE 0)
                /\ pubs'[p].tasks[s] # "send"
                /\ Len(subs'[s].queued) > Len(subs[s].queued) =>
                      subs'[s].queued[Len(subs'[s].queued)].Id = Response(p)]_vars

\* a Publish call is about to return after its sends to two subscribers that
\* were in the map throughout, one of them through handleBackPressure, while
\* the other Publish call is under way
C32_Witness ==
    \E p, q \in PubIds :
        /\ p # q
        /\ pubs[p].pc = "fanout" /\ pubs[q].pc # "idle"
        /\ Cardinality(DOMAIN pubs[p].tasks) = 2
        /\ \A s \in DOMAIN pubs[p].tasks : pubs[p].tasks[s] = "done" /\ MemberThroughout(p, s)
        /\ \E s \in DOMAIN pubs[p].tasks : subs[s].droppedCount > 0

\* C21 (get-or-create yields one Topic per key): for any number of concurrent
\* Publish and Subscribe calls for one key, one Topic is created and inserted,
\* every call returns that Topic, and the registry entry is never removed or
\* replaced once it is there.
C21_OneTopicPerKey ==
    /\ reg.made <= 1
    /\ reg.made = 1 <=> reg.created
    /\ \A c \in GetOrCreateCallers : reg.goc[c].topic \in {0, reg.made}

\* two calls missed the topic under the read lock; one of them has created it
\* and returned, the other holds the write lock, about to probe again
C21_Witness ==
    \E c, d \in GetOrCreateCallers :
        /\ c # d
        /\ reg.goc[c].pc = "idle" /\ reg.goc[c].topic = 1
        /\ reg.goc[d].pc = "locked"

\* some call that locks the registry is under way
LockBusy ==
    \/ reg.metrics # "idle"
    \/ reg.lookup # "idle"
    \/ reg.closer \notin {"idle", "done"}
    \/ reg.counter # "idle"

\* C17 (deadlock freedom): whenever calls that lock the registry are under
\* way, at least one of them can take its next step; no state is reached in
\* which all of them wait for the lock forever.
C17_DeadlockFree ==
    LockBusy => ENABLED (MetricsStep \/ LookupStep \/ CloserStep \/ CounterStep)

----------------------------------------------------------------------------
(* Specification of the throttler: concurrent publish handlers calling         *)
(* ShouldThrottle, the monitor loop pushing counts, the arm timers.            *)

ThrottleNext ==
    \/ \E c \in CallerIds : ShouldThrottleEnter(c)
    \/ \E c \in CallerIds : ShouldThrottleCheck(c)
    \/ \E c \in CallerIds : ShouldThrottleStore(c)
    \/ \E c \in CallerIds, cpu \in UsageSamples, mem \in UsageSamples :
          ShouldThrottleSample(c, cpu, mem)
    \/ \E c \in CallerIds : ShouldThrottleArm(c)
    \/ \E w \in timers : StopThrottling(w)
    \/ \E sl \in 0..MaxCount, tot \in 0..MaxCount : UpdateSubscriberSlow(sl, tot)
    \/ UpdateSubscriberTotal
    \/ Tick

\* two publish handlers at a time call ShouldThrottle
LimThrottle == [LimMain EXCEPT !.pubs = 2]

ThrottleInit == InitCore /\ InitThrottle /\ InitBuffer({AvgMessSize * MaxBufferSize}) /\ lim = LimThrottle

ThrottleSpec == ThrottleInit /\ [][ThrottleNext]_vars

\* GetTotalSubscriberCount: the sum of len(topic.subscribers) over the topics
GetTotalSubscriberCount == Cardinality(LiveSubscribers)

\* GetSlowSubscriberCount: the sum over the topics of the subscribers with IsSlow()
GetSlowSubscriberCount ==
    Cardinality({ ks \in LiveSubscribers : subs[ks[2]].droppedCount > 0 })

\* monitoLoop, a tick: TotalSubCount := tm.GetTotalSubscriberCount()
MonitorTotal ==
    /\ Running
    /\ monitor.pc = "idle"
    /\ monitor' = [pc |-> "counted", total |-> GetTotalSubscriberCount, slowBefore |-> 0]
    /\ UNCHANGED <<thr, now, timers, callers, coreVars, lim, buf, reg>>

\* SlowSubCount := tm.GetSlowSubscriberCount(), and the first store of
\* UpdateSubscriber(SlowSubCount, TotalSubCount)
MonitorSlow ==
    /\ Running
    /\ monitor.pc = "counted"
    /\ thr' = [thr EXCEPT !.slowSubCount = GetSlowSubscriberCount]
    /\ monitor' = [monitor EXCEPT !.pc = "total"]
    /\ UNCHANGED <<now, timers, callers, coreVars, lim, buf, reg>>

\* The monitor loop over the live registry: a connection subscribes, fills its
\* inbox, drops and leaves while the loop sums and pushes and a publish handler
\* calls ShouldThrottle.
CountsNext ==
    \/ \E s \in SubIds, subTenant \in Tenants, pr \in Pairs, b \in Caps,
          st \in DropStrategies : Subscribe(s, subTenant, pr[1], pr[2], b, st)
    \/ \E p \in PubIds, pr \in Pairs, tick \in {0, 1} : PublishBegin(p, pr[1], pr[2], tick)
    \/ \E p \in PubIds : PublishSnapshot(p)
    \/ \E p \in PubIds, s \in SubIds : FanOutStep(p, s)
    \/ \E p \in PubIds : PublishReturn(p)
    \/ \E pr \in Pairs, s \in SubIds : Unsubscribe(pr[1], pr[2], s)
    \/ MonitorTotal
    \/ MonitorSlow
    \/ UpdateSubscriberTotal
    \/ \E c \in CallerIds : ShouldThrottleEnter(c)
    \/ \E c \in CallerIds : ShouldThrottleCheck(c)
    \/ \E c \in CallerIds : ShouldThrottleStore(c)
    \/ \E c \in CallerIds, cpu \in UsageSamples, mem \in UsageSamples :
          ShouldThrottleSample(c, cpu, mem)
    \/ \E c \in CallerIds : ShouldThrottleArm(c)
    \/ \E w \in timers : StopThrottling(w)
    \/ Tick

LimCounts ==
    [pairs |-> {<<Str("a"), Str("c")>>}, subTenants |-> {Str("a")},
     caps |-> {InboxCap}, strategies |-> {"DROP_OLDEST"}, msgs |-> MaxMsgs,
     ticks |-> {1}, subs |-> 1, pubs |-> 1, unsubAny |-> FALSE, logs |-> FALSE, joins |-> FALSE, queues |-> FALSE]

CountsInit == InitCore /\ InitThrottle /\ InitBuffer({AvgMessSize * MaxBufferSize}) /\ lim = LimCounts

CountsSpec == CountsInit /\ [][CountsNext]_vars

\* C33 (throttler counts are consistent): the (slow, total) pair that a
\* ShouldThrottle call is about to load satisfies 0 <= slow <= total, as the
\* sums of slow and of all subscribers at one instant do.
C33_CountsConsistent ==
    \A c \in CallerIds :
        callers[c].pc = "sample" =>
            (0 <= thr.slowSubCount /\ thr.slowSubCount <= thr.totalSubCount)

\* The throttler with the counts of the push before the one under way recorded.
LimDecision == [LimThrottle EXCEPT !.logs = TRUE]

DecisionInit == InitCore /\ InitThrottle /\ InitBuffer({AvgMessSize * MaxBufferSize}) /\ lim = LimDecision

DecisionSpec == DecisionInit /\ [][ThrottleNext]_vars

\* The throttler with timers that fire on time, and with direct calls of
\* StartThrottling beside those of ShouldThrottle.
WindowNext ==
    \/ \E c \in CallerIds : ShouldThrottleEnter(c)
    \/ \E c \in CallerIds : ShouldThrottleCheck(c)
    \/ \E c \in CallerIds : ShouldThrottleStore(c)
    \/ \E c \in CallerIds, cpu \in UsageSamples, mem \in UsageSamples :
          ShouldThrottleSample(c, cpu, mem)
    \/ \E c \in CallerIds : ShouldThrottleArm(c)
    \/ \E w \in timers : StopThrottling(w)
    \/ \E sl \in 0..MaxCount, tot \in 0..MaxCount : UpdateSubscriberSlow(sl, tot)
    \/ UpdateSubscriberTotal
    \/ StartThrottlingCall
    \/ TickPrompt

WindowInit == InitCore /\ InitThrottle /\ InitBuffer({AvgMessSize * MaxBufferSize}) /\ lim = LimThrottle

WindowSpec == WindowInit /\ [][WindowNext]_vars

\* C7 (throttle hysteresis): whenever the throttler was armed at time t,
\* is_throttling is true at every instant of [t, t + throttle_duration).
\* (An arm at t has its timer pending with wake-up time t + throttle_duration.)
C7_ThrottleHysteresis ==
    \A w \in timers : now < w => thr.isThrottling

\* the reference list after the Add calls of `added` in order: it appends, and
\* evicts its oldest element when it holds N already
RECURSIVE ReferenceList(_, _)
ReferenceList(added, N) ==
    IF added = <<>> THEN <<>>
    ELSE LET before == ReferenceList(SubSeq(added, 1, Len(added) - 1), N)
             msg == added[Len(added)]
         IN  IF Len(before) < N THEN Append(before, msg) ELSE Append(Tail(before), msg)

\* C29 (RecentCache is a bounded FIFO): after any Add and Clear calls on a
\* cache of capacity N, GetCount is min(N, Adds since the last Clear) and at most
\* N, and GetLast(k), k >= 0, is the last min(k, count) messages of the
\* reference list, oldest first (the empty list for an empty cache).
C29_BoundedFifo ==
    \A key \in DOMAIN topics :
        LET c == topics[key].recentCache
            added == hist[key]
            ref == ReferenceList(added, c.size)
        IN  lim.logs =>
              /\ GetCount(c) = Min(c.size, Len(added))
              /\ GetCount(c) <= c.size
              /\ GetCount(c) = Len(ref)
              /\ \A k \in 0..(c.size + 2) :
                    GetLast(c, k) = LastOf(ref, Min(k, GetCount(c)))
              /\ GetCount(c) = 0 => GetLast(c, CatchUpLimit) = <<>>

\* a cache of capacity CacheSize that was cleared and has wrapped around since
C29_Witness ==
    /\ lim = LimCache
    /\ LET c == topics[CacheKey].recentCache
       IN  /\ c.size = CacheSize
           /\ published > Len(hist[CacheKey])
           /\ Len(hist[CacheKey]) > c.size
           /\ c.index # 0
           /\ GetLast(c, c.size - 1) = LastOf(hist[CacheKey], c.size - 1)

\* total > 0 AND slow/total > slow_sub_threshold AND (cpu > cpu_threshold OR mem > mem_threshold)
StatedDecision(slow, total, cpu, mem) ==
    /\ total > 0
    /\ slow * 1000 > SlowSubThreshold * total
    /\ (cpu > CPUThreshold \/ mem > MemoryThreshold)

\* the (slow, total) pairs that count as the last one pushed: the pair of the
\* last completed UpdateSubscriber call and, while a call is under way, also
\* the pair it is pushing
LastPushed ==
    IF monitor.pc = "idle"
    THEN { <<thr.slowSubCount, thr.totalSubCount>> }
    ELSE { <<monitor.slowBefore, thr.totalSubCount>>, <<thr.slowSubCount, monitor.total>> }

\* C28 (throttle decision): a ShouldThrottle call that finds the throttle
\* armed returns true; a call that makes a fresh check goes on to arm exactly
\* when the stated decision is true for the last pushed (slow, total) and the
\* sampled signals, and otherwise returns false without arming; an arming call
\* sets the flag and returns true.
C28_ThrottleDecision ==
    [][\A c \in CallerIds :
          /\ (ShouldThrottleEnter(c) /\ thr.isThrottling) =>
                (callers'[c].pc = "idle" /\ callers'[c].ret = "true")
          /\ \A cpu \in UsageSamples, mem \in UsageSamples :
                ShouldThrottleSample(c, cpu, mem) =>
                    \E pushed \in LastPushed :
                        LET decision == StatedDecision(pushed[1], pushed[2], cpu, mem)
                        IN  /\ decision => callers'[c].pc = "arm"
                            /\ ~decision => (callers'[c].pc = "idle" /\ callers'[c].ret = "false")
          /\ ShouldThrottleArm(c) =>
                (thr'.isThrottling /\ callers'[c].ret = "true")]_vars

\* C20 (the throttle window is fixed and ends): when the flag was turned on at
\* time t, it is not on after t + throttle_duration, whatever arms were
\* attempted while it was on (they do not extend the window); the flag is on
\* only within throttle_duration of an arm that found it off, so with no new
\* arm it stays off.
C20_WindowFixed ==
    thr.isThrottling => now <= thr.since + ThrottleDuration

\* the flag is on at the end of its window, with a later arm's timer pending
C20_Witness ==
    /\ thr.isThrottling
    /\ now = thr.since + ThrottleDuration
    /\ \E w \in timers : w > now

====
